---- MODULE Spec2Model ----
(***************************************************************************)
(* Model of the ingestion-and-aggregation core of brick:                   *)
(*   app/database.py      validators, pending batches, flush, read queries  *)
(*   app/log_processor.py the three log parsers                             *)
(*                                                                         *)
(* Text values are modelled by what the code inspects of them:             *)
(*   - an IPv4 address text is the tuple of its four decimal octets,       *)
(*   - a MAC text is the tuple of its colon-separated groups,              *)
(*   - a protocol name is the tuple of its characters.                     *)
(* A JSON value is a tagged record (JNull, JNum, JBig, JStr, JList, JObj). *)
(* The last_seen columns (CURRENT_TIMESTAMP) are not modelled.             *)
(***************************************************************************)
EXTENDS Integers, Sequences, FiniteSets, TLC

\* ------------------------------------------------------------------ bounds
\* How many lines the external producer appends and how many direct
\* update_* calls are made in one behaviour.
MaxInputs == 2
\* Cap on a persisted packet_count (the counters are unbounded in the code).
MaxCount == 3
\* How many persistence failures of the environment (disk full, database
\* locked) are injected in one behaviour.
MaxFaults == 1

\* How many submissions of one key the history `submitted` records between
\* two transactions.
MaxSubmitted == 2

\* ------------------------------------------------------------- JSON values
JNull == [t |-> "null"]
JNum(n) == [t |-> "num", n |-> n]
\* an integer of 2^63 or more (does not fit an SQLite INTEGER)
JBig == [t |-> "big"]
JStr(s) == [t |-> "str", s |-> s]
\* a non-empty JSON array
JList == [t |-> "list"]
JObj(f) == [t |-> "obj", f |-> f]

\* Python truthiness of a decoded JSON value.
Truthy(v) ==
  CASE v.t = "null" -> FALSE
    [] v.t = "num" -> v.n # 0
    [] v.t = "str" -> v.s # <<>>
    [] OTHER -> TRUE

IsStr(v) == v.t = "str"

\* dict.get(key, default) on a decoded JSON object.
Get(data, key, default) == IF key \in DOMAIN data.f THEN data.f[key] ELSE default

\* ------------------------------------------------------------- characters
LowerChars == <<"a","b","c","d","e","f","g","h","i","j","k","l","m",
                "n","o","p","q","r","s","t","u","v","w","x","y","z">>
UpperChars == <<"A","B","C","D","E","F","G","H","I","J","K","L","M",
                "N","O","P","Q","R","S","T","U","V","W","X","Y","Z">>
Digits == {"0","1","2","3","4","5","6","7","8","9"}

Range(s) == {s[i] : i \in DOMAIN s}

UpperChar(c) ==
  IF \E i \in DOMAIN LowerChars : LowerChars[i] = c
  THEN UpperChars[CHOOSE i \in DOMAIN LowerChars : LowerChars[i] = c]
  ELSE c

LowerChar(c) ==
  IF \E i \in DOMAIN UpperChars : UpperChars[i] = c
  THEN LowerChars[CHOOSE i \in DOMAIN UpperChars : UpperChars[i] = c]
  ELSE c

\* str.upper() on a tuple of characters.
Upper(s) == [i \in DOMAIN s |-> UpperChar(s[i])]


\* --------------------------------------------------------------- validators
\* ipaddress.ip_address on a dotted-quad text: four octets, each 0..255.
ParsesAsIp(s) == Len(s) = 4 /\ \A i \in 1..4 : s[i] \in 0..255

is_valid_ip(ip_str) ==
  IF ~Truthy(ip_str) \/ ~IsStr(ip_str) THEN FALSE ELSE ParsesAsIp(ip_str.s)

HexChars == Digits \cup {"a","b","c","d","e","f","A","B","C","D","E","F"}

\* ^([0-9A-Fa-f]{2}:){5}[0-9A-Fa-f]{2}$ on the tuple of colon-separated groups
MatchesMac(s) ==
  Len(s) = 6 /\ \A i \in 1..6 : Len(s[i]) = 2 /\ Range(s[i]) \subseteq HexChars

is_valid_mac(mac_str) ==
  IF ~Truthy(mac_str) THEN TRUE
  ELSE IF ~IsStr(mac_str) THEN FALSE
  ELSE MatchesMac(mac_str.s)

\* the broadcast test alone: ip.endswith('.255')
is_broadcast(ip) == Len(ip.s) >= 2 /\ ip.s[Len(ip.s)] = 255

\* ip.endswith('.255') or ip.startswith('224.' .. '239.') on the octet tuple
is_broadcast_or_multicast(ip) ==
  \/ Len(ip.s) >= 2 /\ ip.s[Len(ip.s)] = 255
  \/ Len(ip.s) >= 2 /\ ip.s[1] \in 224..239

\* ------------------------------------------------------- the store's state
VARIABLES
  connection,        \* _connection is not None
  in_transaction,    \* the connection has an open transaction
  asset_batch,       \* _asset_batch: <<[ip, mac, timestamp]>> in insertion order
  protocol_batch,    \* _protocol_batch: <<[ip, protos]>> in insertion order
  connection_batch,  \* _connection_batch: <<key>> in insertion order
  assets,            \* table assets: <<[ip, mac, first_seen]>>
  protocols,         \* table protocols: <<[ip, protocol, packet_count]>>
  connections,       \* table connections
  fault,             \* the armed persistence failure of the environment
  faults,            \* how many failures were armed so far
  log,               \* the log files: source name -> <<line>>
  inputs,            \* how many lines were appended / direct calls made
  pc,                \* position of the running parse pass
  submitted,         \* history: keys accepted by update_* since the last transaction
  op,                \* the last operation and how it ended
  result,            \* rows returned by the last read accessor
  files,             \* the upload directory: inodes and the two path names
  uploads,           \* the handle_upload coroutines, one per upload event
  monitor            \* the watch_processing coroutine, its clock and its reports

vars == <<connection, in_transaction, asset_batch, protocol_batch,
          connection_batch, assets, protocols, connections, fault, faults,
          log, inputs, pc, submitted, op, result, files, uploads, monitor>>

\* the state outside the database and the log parsers
ui_vars == <<files, uploads, monitor>>

NoFault == [at |-> "none", k |-> 0]

\* The database module's state as one value, threaded through the calls of
\* one handler. exc: an exception that is not an sqlite3.Error is propagating.
\* err: the functions that caught an sqlite3.Error and printed "Database error".
Cur ==
  [conn |-> connection, txn |-> in_transaction,
   ab |-> asset_batch, pb |-> protocol_batch, cb |-> connection_batch,
   assets |-> assets, protocols |-> protocols, connections |-> connections,
   fault |-> fault, sub |-> submitted, exc |-> FALSE, err |-> {}]

Install(S) ==
  /\ connection' = S.conn
  /\ in_transaction' = S.txn
  /\ asset_batch' = S.ab
  /\ protocol_batch' = S.pb
  /\ connection_batch' = S.cb
  /\ assets' = S.assets
  /\ protocols' = S.protocols
  /\ connections' = S.connections
  /\ fault' = S.fault
  /\ submitted' = S.sub
  /\ UNCHANGED ui_vars

\* protocols, connections: the keys accepted since the last transaction ended;
\* committed: the keys that were pending when the last transaction committed
NoKeys == [protocols |-> <<>>, connections |-> <<>>]
NoSub == [protocols |-> <<>>, connections |-> <<>>, committed |-> NoKeys]

Occurrences(s, x) == Cardinality({i \in DOMAIN s : s[i] = x})

\* the history of accepted keys, each recorded at most MaxSubmitted times
Record(s, x) == IF Occurrences(s, x) < MaxSubmitted THEN Append(s, x) ELSE s

\* ------------------------------------------------------------------ flush
\* Does the environment's armed failure hit statement i of stage at?
Hit(S, at, i) == S.fault.at = at /\ S.fault.k = i

HasAsset(rows, ip) == \E i \in DOMAIN rows : rows[i].ip = ip

\* an UPDATE that sets first_seen as well
RewriteAsset(rows, e) ==
  [i \in DOMAIN rows |->
     IF rows[i].ip = e.ip
     THEN [rows[i] EXCEPT !.mac = IF Truthy(e.mac) THEN e.mac ELSE @,
                          !.first_seen = e.timestamp]
     ELSE rows[i]]

\* UPDATE assets SET mac = ? WHERE ip = ?  (only when the batch has a MAC)
UpdateAsset(rows, e) ==
  [i \in DOMAIN rows |->
     IF rows[i].ip = e.ip /\ Truthy(e.mac)
     THEN [rows[i] EXCEPT !.mac = e.mac] ELSE rows[i]]

\* first_seen = timestamp if timestamp else None
FirstSeen(e) == IF Truthy(e.timestamp) THEN e.timestamp ELSE JNull

\* INSERT INTO assets (ip, mac, first_seen, last_seen)
InsertAsset(rows, e) ==
  Append(rows, [ip |-> e.ip, mac |-> e.mac, first_seen |-> FirstSeen(e)])

\* sqlite3 refuses to bind a list: an sqlite3.Error
BindError(v) == v.t \in {"list", "obj"}
\* an int that does not fit 64 bits: OverflowError, no sqlite3.Error
BindOverflow(v) == v.t = "big"

RECURSIVE FlushAssetsFrom(_, _)
FlushAssetsFrom(S, i) ==
  IF i > Len(S.ab) THEN [S EXCEPT !.ab = <<>>]
  ELSE LET e == S.ab[i] IN
    IF Hit(S, "assets", i)
    THEN [S EXCEPT !.ab = <<>>, !.fault = NoFault, !.err = @ \cup {"_flush_assets"}]
    ELSE IF HasAsset(S.assets, e.ip)
    THEN FlushAssetsFrom([S EXCEPT !.assets = UpdateAsset(S.assets, e)], i + 1)
    ELSE IF BindError(FirstSeen(e))
    THEN [S EXCEPT !.ab = <<>>, !.err = @ \cup {"_flush_assets"}]
    ELSE IF BindOverflow(FirstSeen(e)) THEN [S EXCEPT !.exc = TRUE]
    ELSE FlushAssetsFrom([S EXCEPT !.assets = InsertAsset(S.assets, e)], i + 1)

flush_assets(S) == IF S.ab = <<>> THEN S ELSE FlushAssetsFrom(S, 1)

\* a plain INSERT into a table without the UNIQUE(ip, protocol) constraint
InsertProtocol(rows, ip, proto) ==
  Append(rows, [ip |-> ip, protocol |-> proto, packet_count |-> 1])

\* the conflict clause with the sign wrong: SET packet_count = packet_count - 1
DecrementProtocol(rows, ip, proto) ==
  IF \E i \in DOMAIN rows : rows[i].ip = ip /\ rows[i].protocol = proto
  THEN [i \in DOMAIN rows |->
          IF rows[i].ip = ip /\ rows[i].protocol = proto
          THEN [rows[i] EXCEPT !.packet_count = @ - 1] ELSE rows[i]]
  ELSE Append(rows, [ip |-> ip, protocol |-> proto, packet_count |-> 1])

\* INSERT ... ON CONFLICT(ip, protocol) DO UPDATE SET packet_count = packet_count + 1
UpsertProtocol(rows, ip, proto) ==
  IF \E i \in DOMAIN rows : rows[i].ip = ip /\ rows[i].protocol = proto
  THEN [i \in DOMAIN rows |->
          IF rows[i].ip = ip /\ rows[i].protocol = proto
          THEN [rows[i] EXCEPT !.packet_count = @ + 1] ELSE rows[i]]
  ELSE Append(rows, [ip |-> ip, protocol |-> proto, packet_count |-> 1])

\* the (ip, proto) pairs of the batch in iteration order
RECURSIVE ProtocolPairs(_)
ProtocolPairs(pb) ==
  IF pb = <<>> THEN <<>>
  ELSE [i \in DOMAIN pb[1].protos |-> <<pb[1].ip, pb[1].protos[i]>>]
       \o ProtocolPairs(Tail(pb))

RECURSIVE FlushProtocolsFrom(_, _, _)
FlushProtocolsFrom(S, pairs, i) ==
  IF i > Len(pairs) THEN [S EXCEPT !.pb = <<>>]
  ELSE IF Hit(S, "protocols", i)
  THEN [S EXCEPT !.pb = <<>>, !.fault = NoFault, !.err = @ \cup {"_flush_protocols"}]
  ELSE FlushProtocolsFrom(
         [S EXCEPT !.protocols = UpsertProtocol(S.protocols, pairs[i][1], pairs[i][2])],
         pairs, i + 1)

\* _flush_protocols without _protocol_batch.clear()
keep_protocols(S) ==
  IF S.pb = <<>> THEN S
  ELSE [FlushProtocolsFrom(S, ProtocolPairs(S.pb), 1) EXCEPT !.pb = S.pb]

flush_protocols(S) ==
  IF S.pb = <<>> THEN S ELSE FlushProtocolsFrom(S, ProtocolPairs(S.pb), 1)

SameKey(r, key) ==
  /\ r.source_ip = key[1] /\ r.dest_ip = key[2]
  /\ r.dest_port = key[3] /\ r.protocol = key[4]

\* INSERT ... ON CONFLICT(source_ip, dest_ip, dest_port, protocol) DO UPDATE ...
UpsertConnection(rows, key) ==
  IF \E i \in DOMAIN rows : SameKey(rows[i], key)
  THEN [i \in DOMAIN rows |->
          IF SameKey(rows[i], key)
          THEN [rows[i] EXCEPT !.packet_count = @ + 1] ELSE rows[i]]
  ELSE Append(rows, [source_ip |-> key[1], dest_ip |-> key[2], dest_port |-> key[3],
                     protocol |-> key[4], packet_count |-> 1])

RECURSIVE FlushConnectionsFrom(_, _)
FlushConnectionsFrom(S, i) ==
  IF i > Len(S.cb) THEN [S EXCEPT !.cb = <<>>]
  ELSE IF Hit(S, "connections", i)
  THEN [S EXCEPT !.cb = <<>>, !.fault = NoFault, !.err = @ \cup {"_flush_connections"}]
  ELSE FlushConnectionsFrom(
         [S EXCEPT !.connections = UpsertConnection(S.connections, S.cb[i])], i + 1)

flush_connections(S) == IF S.cb = <<>> THEN S ELSE FlushConnectionsFrom(S, 1)

\* _connection.commit(), or on its failure _connection.rollback()
Commit(S0, S) ==
  IF Hit(S, "commit", 1)
  THEN [S EXCEPT !.assets = S0.assets, !.protocols = S0.protocols,
                 !.connections = S0.connections, !.fault = NoFault,
                 !.txn = FALSE, !.sub = NoSub, !.err = @ \cup {"flush_batch"}]
  ELSE [S EXCEPT !.txn = FALSE,
                 !.sub = [NoSub EXCEPT !.committed =
                            [protocols |-> S.sub.protocols,
                             connections |-> S.sub.connections]]]

\* flush_batch after _flush_assets(conn) left state A
AfterFlushAssets(S, A) ==
  IF A.exc
  THEN \* the exception leaves flush_batch; the transaction stays open and
       \* its statements are never committed
       [S EXCEPT !.txn = TRUE, !.exc = TRUE, !.fault = A.fault]
  ELSE Commit(S, flush_connections(flush_protocols(A)))

flush_batch(S) ==
  IF ~S.conn THEN S
  ELSE IF S.txn
  THEN \* BEGIN fails inside an open transaction; the handler rolls back
       [S EXCEPT !.txn = FALSE, !.err = @ \cup {"flush_batch"}]
  ELSE AfterFlushAssets(S, flush_assets(S))


\* ------------------------------------------------------- pending batches
\* scaled-down _batch_size (5000 in the code): pending items that trigger a flush
batch_size == 5

maybe_flush(S) ==
  LET total_items == Len(S.ab) + Len(S.pb) + Len(S.cb) IN
  IF total_items >= batch_size THEN flush_batch(S) ELSE S

InAssetBatch(ab, ip) == \E i \in DOMAIN ab : ab[i].ip = ip

\* _asset_batch[ip] = {'mac': mac, 'timestamp': timestamp}
PutAsset(ab, ip, mac, timestamp) ==
  LET e == [ip |-> ip, mac |-> mac, timestamp |-> timestamp] IN
  IF InAssetBatch(ab, ip)
  THEN [i \in DOMAIN ab |-> IF ab[i].ip = ip THEN e ELSE ab[i]]
  ELSE Append(ab, e)

\* update_asset reaching _maybe_flush() after a rejection as well
flushing_asset(S, ip, mac, timestamp) ==
  IF ~is_valid_ip(ip) THEN maybe_flush(S)
  ELSE IF Truthy(mac) /\ ~is_valid_mac(mac) THEN maybe_flush(S)
  ELSE maybe_flush(
         IF ~InAssetBatch(S.ab, ip.s) \/ Truthy(mac)
         THEN [S EXCEPT !.ab = PutAsset(S.ab, ip.s, mac, timestamp)]
         ELSE S)

\* update_asset storing the entry on every accepted call
overwrite_asset(S, ip, mac, timestamp) ==
  IF ~is_valid_ip(ip) THEN S
  ELSE IF Truthy(mac) /\ ~is_valid_mac(mac) THEN S
  ELSE maybe_flush([S EXCEPT !.ab = PutAsset(S.ab, ip.s, mac, timestamp)])

update_asset(S, ip, mac, timestamp) ==
  IF ~is_valid_ip(ip) THEN S
  ELSE IF Truthy(mac) /\ ~is_valid_mac(mac) THEN S
  ELSE maybe_flush(
         IF ~InAssetBatch(S.ab, ip.s) \/ Truthy(mac)
         THEN [S EXCEPT !.ab = PutAsset(S.ab, ip.s, mac, timestamp)]
         ELSE S)

Whitespace == {" ", "\t", "\n"}

RECURSIVE LStrip(_)
LStrip(s) == IF s # <<>> /\ s[1] \in Whitespace THEN LStrip(Tail(s)) ELSE s

RECURSIVE RStrip(_)
RStrip(s) ==
  IF s # <<>> /\ s[Len(s)] \in Whitespace THEN RStrip(SubSeq(s, 1, Len(s) - 1)) ELSE s

\* str.strip()
Strip(s) == RStrip(LStrip(s))

\* str.split(','): the pieces between the commas, empty pieces included
RECURSIVE SplitFrom(_, _, _)
SplitFrom(s, i, piece) ==
  IF i > Len(s) THEN <<piece>>
  ELSE IF s[i] = "," THEN <<piece>> \o SplitFrom(s, i + 1, <<>>)
  ELSE SplitFrom(s, i + 1, Append(piece, s[i]))

Split(s) == SplitFrom(s, 1, <<>>)

MaxProtoLen == 50

NameChars == Range(LowerChars) \cup Range(UpperChars) \cup Digits \cup {"_", "-"}

\* re.match(r'^[A-Za-z0-9_-]+$', proto)
MatchesName(proto) == proto # <<>> /\ Range(proto) \subseteq NameChars

InSeq(s, x) == \E i \in DOMAIN s : s[i] = x

\* a pending list instead of a set: _protocol_batch[ip].append(proto)
AppendProtocol(pb, ip, proto) ==
  IF \E i \in DOMAIN pb : pb[i].ip = ip
  THEN [i \in DOMAIN pb |->
          IF pb[i].ip = ip THEN [pb[i] EXCEPT !.protos = Append(@, proto)] ELSE pb[i]]
  ELSE Append(pb, [ip |-> ip, protos |-> <<proto>>])

\* _protocol_batch[ip].add(proto)
AddProtocol(pb, ip, proto) ==
  IF \E i \in DOMAIN pb : pb[i].ip = ip
  THEN [i \in DOMAIN pb |->
          IF pb[i].ip = ip /\ ~InSeq(pb[i].protos, proto)
          THEN [pb[i] EXCEPT !.protos = Append(@, proto)] ELSE pb[i]]
  ELSE Append(pb, [ip |-> ip, protos |-> <<proto>>])

\* the loop body of update_protocol for one stripped name
AddName(S, ip, proto) ==
  IF Len(proto) > MaxProtoLen \/ ~MatchesName(proto) THEN S
  ELSE [S EXCEPT !.pb = AddProtocol(S.pb, ip, proto),
                 !.sub.protocols = Record(@, <<ip, proto>>)]

RECURSIVE AddProtocols(_, _, _, _)
AddProtocols(S, ip, names, i) ==
  IF i > Len(names) THEN S
  ELSE AddProtocols(AddName(S, ip, Strip(names[i])), ip, names, i + 1)

update_protocol(S, ip, protocol) ==
  IF ~is_valid_ip(ip) THEN S
  ELSE IF ~Truthy(protocol) \/ ~IsStr(protocol) THEN S
  ELSE maybe_flush(AddProtocols(S, ip.s, Split(protocol.s), 1))

MaxPort == 65535

\* isinstance(dest_port, int)
IsInt(v) == v.t \in {"num", "big"}

PortInRange(v) == v.t = "num" /\ v.n >= 0 /\ v.n <= MaxPort

update_connection(S, source_ip, dest_ip, dest_port, protocol) ==
  IF ~is_valid_ip(source_ip) \/ ~is_valid_ip(dest_ip) THEN S
  ELSE IF ~IsInt(dest_port) \/ ~PortInRange(dest_port) THEN S
  ELSE IF ~Truthy(protocol) \/ ~IsStr(protocol) THEN S
  ELSE LET key == <<source_ip.s, dest_ip.s, dest_port.n, protocol.s>> IN
    maybe_flush(
      [S EXCEPT !.cb = IF InSeq(S.cb, key) THEN S.cb ELSE Append(S.cb, key),
                !.sub.connections = Record(@, key)])


\* ---------------------------------------------------------------- parsers
\* A line of a log file: a '#' comment, text json.loads rejects, or JSON.
Comment == [kind |-> "comment", data |-> JNull]
Garbage == [kind |-> "garbage", data |-> JNull]
Json(d) == [kind |-> "json", data |-> d]

\* an exception other than json.JSONDecodeError leaves the line loop
Raise(S) == [S EXCEPT !.exc = TRUE]

\* str.lower() on a MAC text
LowerMac(s) == [i \in DOMAIN s |-> [j \in DOMAIN s[i] |-> LowerChar(s[i][j])]]

\* 'ff:ff:ff:ff:ff:ff'
BroadcastMac == [i \in 1..6 |-> <<"f", "f">>]

\* one iteration of parse_asset_log's loop
AssetLine(S, line) ==
  IF line.kind # "json" THEN S
  ELSE IF line.data.t # "obj" THEN Raise(S)
  ELSE LET ip == Get(line.data, "ip", JNull)
           mac == Get(line.data, "mac", JStr(<<>>))
           ts == Get(line.data, "ts", JNull) IN
    IF ~Truthy(ip) THEN S
    ELSE IF ~IsStr(ip) THEN Raise(S)
    ELSE IF is_broadcast_or_multicast(ip) THEN S
    ELSE IF Truthy(mac)
    THEN IF ~IsStr(mac) THEN Raise(S)
         ELSE IF LowerMac(mac.s) # BroadcastMac THEN update_asset(S, ip, mac, ts)
         ELSE S
    ELSE update_asset(S, ip, JNull, ts)

\* the next call of a handler, unless an exception is already propagating
ThenProtocol(S, ip, protocol) ==
  IF S.exc THEN S ELSE update_protocol(S, ip, protocol)

\* if service: update_protocol(ip, service.upper())
ThenService(S, ip, service) ==
  IF S.exc \/ ~Truthy(service) THEN S
  ELSE IF ~IsStr(service) THEN Raise(S)
  ELSE update_protocol(S, ip, JStr(Upper(service.s)))

\* an endpoint's intents without its Host intent
ProtocolsOnly(S, ip, proto, service) ==
  IF S.exc \/ ~Truthy(ip) THEN S
  ELSE ThenService(ThenProtocol(S, ip, JStr(proto)), ip, service)

\* update_asset(ip); update_protocol(ip, proto); if service: ...
ConnEndpoint(S, ip, proto, service) ==
  IF S.exc \/ ~Truthy(ip) THEN S
  ELSE ThenService(
         ThenProtocol(update_asset(S, ip, JNull, JNull), ip, JStr(proto)),
         ip, service)

\* if orig_ip and resp_ip and resp_port: update_connection(...)
ThenConnection(S, orig_ip, resp_ip, resp_port, proto) ==
  IF S.exc THEN S
  ELSE IF Truthy(orig_ip) /\ Truthy(resp_ip) /\ Truthy(resp_port)
  THEN update_connection(S, orig_ip, resp_ip, resp_port, JStr(proto))
  ELSE S

Unknown == <<"u","n","k","n","o","w","n">>

\* one iteration of parse_conn_log's loop
ConnLine(S, line) ==
  IF line.kind # "json" THEN S
  ELSE IF line.data.t # "obj" THEN Raise(S)
  ELSE LET orig_ip == Get(line.data, "id.orig_h", JNull)
           resp_ip == Get(line.data, "id.resp_h", JNull)
           resp_port == Get(line.data, "id.resp_p", JNull)
           proto0 == Get(line.data, "proto", JStr(Unknown))
           service == Get(line.data, "service", JStr(<<>>)) IN
    IF ~IsStr(proto0) THEN Raise(S)
    ELSE IF ~IsStr(orig_ip) THEN Raise(S)
    ELSE IF is_broadcast_or_multicast(orig_ip) THEN S
    ELSE IF ~IsStr(resp_ip) THEN Raise(S)
    ELSE IF is_broadcast_or_multicast(resp_ip) THEN S
    ELSE ThenConnection(
           ConnEndpoint(ConnEndpoint(S, orig_ip, Upper(proto0.s), service),
                        resp_ip, Upper(proto0.s), service),
           orig_ip, resp_ip, resp_port, Upper(proto0.s))

\* update_asset(ip); update_protocol(ip, protocol_name) for one endpoint
IcsEndpoint(S, ip, protocol_name) ==
  IF S.exc \/ ~Truthy(ip) THEN S
  ELSE IF ~IsStr(ip) THEN Raise(S)
  ELSE IF is_broadcast_or_multicast(ip) THEN S
  ELSE ThenProtocol(update_asset(S, ip, JNull, JNull), ip, JStr(protocol_name))

\* one iteration of parse_ics_logs' line loop
IcsLine(S, line, protocol_name) ==
  IF line.kind # "json" THEN S
  ELSE IF line.data.t # "obj" THEN Raise(S)
  ELSE IcsEndpoint(
         IcsEndpoint(S, Get(line.data, "id.orig_h", JNull), protocol_name),
         Get(line.data, "id.resp_h", JNull), protocol_name)

\* the log sources; ics_logs in the order parse_ics_logs visits them
ics_logs == <<"modbus", "enip", "s7comm">>
Sources == {"asset_log", "conn"} \cup Range(ics_logs)

\* log_name.replace('.log', '').upper()
ProtocolName(log_name) ==
  CASE log_name = "modbus" -> Upper(<<"m","o","d","b","u","s">>)
    [] log_name = "enip" -> Upper(<<"e","n","i","p">>)
    [] log_name = "s7comm" -> Upper(<<"s","7","c","o","m","m">>)

ParseLine(S, src, line) ==
  CASE src = "asset_log" -> AssetLine(S, line)
    [] src = "conn" -> ConnLine(S, line)
    [] OTHER -> IcsLine(S, line, ProtocolName(src))

\* for line in f: ... ; an exception ends the loop
RECURSIVE ParseLines(_, _, _, _)
ParseLines(S, src, lines, i) ==
  IF i > Len(lines) \/ S.exc THEN S
  ELSE ParseLines(ParseLine(S, src, lines[i]), src, lines, i + 1)

\* The body of one parser's try block up to and including its flush, and the
\* except handler. cleared: the code goes on to truncate the file.
\* exc: an exception leaves the parser.
\* flush_batch() after the line loop, unless the loop raised
FlushAfterLoop(L) == IF L.exc THEN L ELSE flush_batch(L)

\* a handler after which the file is truncated as well
OrFinally(F) ==
  IF ~F.exc THEN [S |-> F, cleared |-> TRUE]
  ELSE [S |-> flush_batch([F EXCEPT !.exc = FALSE]), cleared |-> TRUE]

\* the except handler: flush_batch() once more, no truncation
OrHandler(F) ==
  IF ~F.exc THEN [S |-> F, cleared |-> TRUE]
  ELSE [S |-> flush_batch([F EXCEPT !.exc = FALSE]), cleared |-> FALSE]

ParseSource(S, src, lines) == OrHandler(FlushAfterLoop(ParseLines(S, src, lines, 1)))


\* ------------------------------------------------------------ read queries
\* rows in ORDER BY packet_count DESC (rows of equal count in table order)
RECURSIVE InsertDesc(_, _)
InsertDesc(sorted, r) ==
  IF sorted = <<>> THEN <<r>>
  ELSE IF r.packet_count > sorted[1].packet_count THEN <<r>> \o sorted
  ELSE <<sorted[1]>> \o InsertDesc(Tail(sorted), r)

RECURSIVE SortDesc(_)
SortDesc(rows) ==
  IF rows = <<>> THEN <<>>
  ELSE InsertDesc(SortDesc(SubSeq(rows, 1, Len(rows) - 1)), rows[Len(rows)])

RECURSIVE SelectSeq2(_, _, _)
SelectSeq2(rows, field, ip) ==
  IF rows = <<>> THEN <<>>
  ELSE (IF rows[1][field] = ip THEN <<rows[1]>> ELSE <<>>)
       \o SelectSeq2(Tail(rows), field, ip)

Limit(rows, n) == IF Len(rows) > n THEN SubSeq(rows, 1, n) ELSE rows

DefaultLimit == 1000

\* SELECT protocol, packet_count, last_seen
ProtocolColumns(rows) ==
  [i \in DOMAIN rows |->
     [protocol |-> rows[i].protocol, packet_count |-> rows[i].packet_count]]

\* SELECT dest_ip, dest_port, protocol, packet_count, last_seen
ConnectionColumns(rows) ==
  [i \in DOMAIN rows |->
     [dest_ip |-> rows[i].dest_ip, dest_port |-> rows[i].dest_port,
      protocol |-> rows[i].protocol, packet_count |-> rows[i].packet_count]]

\* Each accessor: flush_batch(), then get_connection() and the SELECT.
\* rows: what the accessor returns (<<>> when the flush raised). The hosts
\* come in table order: their ORDER BY last_seen is not modelled.
\* F: the state flush_batch() left
SelectAssets(F) ==
  IF F.exc THEN [S |-> F, rows |-> <<>>]
  ELSE [S |-> [F EXCEPT !.conn = TRUE], rows |-> F.assets]

get_all_assets(S) == SelectAssets(flush_batch(S))

SelectProtocols(F, ip) ==
  IF F.exc \/ ~is_valid_ip(ip) THEN [S |-> F, rows |-> <<>>]
  ELSE [S |-> [F EXCEPT !.conn = TRUE],
        rows |-> ProtocolColumns(SortDesc(SelectSeq2(F.protocols, "ip", ip.s)))]

get_asset_protocols(S, ip) == SelectProtocols(flush_batch(S), ip)

SelectConnections(F, ip, limit) ==
  IF F.exc \/ ~is_valid_ip(ip) THEN [S |-> F, rows |-> <<>>]
  ELSE [S |-> [F EXCEPT !.conn = TRUE],
        rows |-> ConnectionColumns(
                   Limit(SortDesc(SelectSeq2(F.connections, "source_ip", ip.s)), limit))]

get_asset_connections(S, ip, limit) == SelectConnections(flush_batch(S), ip, limit)

\* ------------------------------------------------------------------ inputs
ip1 == <<10, 0, 0, 1>>
ip2 == <<10, 0, 0, 2>>
Broadcast255 == <<10, 0, 0, 255>>
Multicast230 == <<230, 1, 1, 1>>
BadIp == <<999, 1, 1, 1>>

Mac0a == [i \in 1..6 |-> <<"0", "a">>]

tcp == <<"t", "c", "p">>
TCP == <<"T", "C", "P">>

AssetRecord(ip, ts) == Json(JObj(("ip" :> JStr(ip)) @@ ("ts" :> ts)))
AssetRecordMac(ip, mac, ts) ==
  Json(JObj(("ip" :> JStr(ip)) @@ ("mac" :> JStr(mac)) @@ ("ts" :> ts)))

ConnRecord(orig, resp, port, proto) ==
  Json(JObj(("id.orig_h" :> JStr(orig)) @@ ("id.resp_h" :> JStr(resp))
            @@ ("id.resp_p" :> JNum(port)) @@ ("proto" :> JStr(proto))))

\* a connection record without a responder address
ConnRecordNoResp(orig, proto) ==
  Json(JObj(("id.orig_h" :> JStr(orig)) @@ ("proto" :> JStr(proto))))

IcsRecord(orig, resp) ==
  Json(JObj(("id.orig_h" :> JStr(orig)) @@ ("id.resp_h" :> JStr(resp))))

\* the lines the external producer may append to each source
Lines(src) ==
  CASE src = "asset_log" ->
         { AssetRecordMac(ip1, Mac0a, JNum(1)), AssetRecord(ip2, JNum(2)),
           AssetRecord(ip2, JList), AssetRecord(ip2, JBig),
           AssetRecord(Broadcast255, JNum(1)), AssetRecord(Multicast230, JNum(1)),
           Json(JList), Garbage }
    [] src = "conn" ->
         { ConnRecord(ip1, ip2, 502, tcp), ConnRecord(ip1, ip2, 70000, tcp),
           ConnRecord(ip1, Broadcast255, 70000, tcp),
           ConnRecord(Multicast230, ip2, 502, tcp),
           ConnRecordNoResp(ip1, tcp), Garbage }
    [] OTHER ->
         { IcsRecord(ip1, ip2), IcsRecord(ip1, Broadcast255),
           IcsRecord(Multicast230, ip2) }

\* arguments of the direct update_* calls
CallIps == {JStr(ip1), JStr(ip2)}
CallTimestamps == {JNum(1), JList, JBig}
CallPorts == {JNum(502), JNum(70000)}

\* ----------------------------------------------------------------- actions
NoFile == [exists |-> FALSE, lines |-> <<>>]
Idle == [name |-> "idle", i |-> 0]

\* the upload directory holds no file: inodes are numbered from 1, a path
\* names an inode or 0 when it does not exist
NoFiles == [inodes |-> <<>>, temp |-> 0, final |-> 0]

\* watch_processing was not called yet; now is the wall clock time.time() reads
NoMonitor ==
  [pc |-> "idle", now |-> 0, timeout_seconds |-> 0, pcap_size |-> 0,
   start_time |-> 0, wait_start |-> 0, previous_log_size |-> 0,
   unchanged_count |-> 0, current_stage |-> 0, polls |-> <<>>,
   reports |-> <<>>, returned |-> "none"]

Init ==
  /\ connection = FALSE
  /\ in_transaction = FALSE
  /\ asset_batch = <<>>
  /\ protocol_batch = <<>>
  /\ connection_batch = <<>>
  /\ assets = <<>>
  /\ protocols = <<>>
  /\ connections = <<>>
  /\ fault = NoFault
  /\ faults = 0
  /\ log = [src \in Sources |-> NoFile]
  /\ inputs = 0
  /\ pc = Idle
  /\ submitted = NoSub
  /\ op = [name |-> "init", raised |-> FALSE, err |-> {}, read |-> 0]
  /\ result = <<>>
  /\ files = NoFiles
  /\ uploads = <<>>
  /\ monitor = NoMonitor

\* every persisted counter is below the model's cap
BelowCap ==
  /\ \A i \in DOMAIN protocols : protocols[i].packet_count < MaxCount
  /\ \A i \in DOMAIN connections : connections[i].packet_count < MaxCount

\* a handler of the application ran from the idle state and ended in state S
Ran(name, S) ==
  /\ Install(S)
  /\ op' = [name |-> name, raised |-> S.exc, err |-> S.err, read |-> 0]
  /\ UNCHANGED <<faults, log, pc>>

\* the external producer appends a line to a log file
Produce(src, line) ==
  /\ inputs < MaxInputs
  /\ inputs' = inputs + 1
  /\ log' = [log EXCEPT ![src] = [exists |-> TRUE, lines |-> Append(@.lines, line)]]
  /\ UNCHANGED <<connection, in_transaction, asset_batch, protocol_batch,
                 connection_batch, assets, protocols, connections, fault, faults,
                 pc, submitted, op, result, ui_vars>>

\* the environment arms a persistence failure: statement k of a stage of the
\* next transaction that gets that far fails
ArmFault(at, k) ==
  /\ faults < MaxFaults
  /\ fault = NoFault
  /\ connection
  /\ faults' = faults + 1
  /\ fault' = [at |-> at, k |-> k]
  /\ UNCHANGED <<connection, in_transaction, asset_batch, protocol_batch,
                 connection_batch, assets, protocols, connections,
                 log, inputs, pc, submitted, op, result, ui_vars>>

UpdateAssetCall(ip, ts) ==
  /\ pc = Idle /\ BelowCap
  /\ inputs < MaxInputs
  /\ inputs' = inputs + 1
  /\ Ran("update_asset", update_asset(Cur, ip, JNull, ts))
  /\ result' = <<>>

UpdateProtocolCall(ip, protocol) ==
  /\ pc = Idle /\ BelowCap
  /\ inputs < MaxInputs
  /\ inputs' = inputs + 1
  /\ Ran("update_protocol", update_protocol(Cur, ip, protocol))
  /\ result' = <<>>

UpdateConnectionCall(source_ip, dest_ip, dest_port, protocol) ==
  /\ pc = Idle /\ BelowCap
  /\ inputs < MaxInputs
  /\ inputs' = inputs + 1
  /\ Ran("update_connection",
         update_connection(Cur, source_ip, dest_ip, dest_port, protocol))
  /\ result' = <<>>

FlushBatch ==
  /\ pc = Idle /\ BelowCap
  /\ Ran("flush_batch", flush_batch(Cur))
  /\ result' = <<>>
  /\ UNCHANGED inputs

\* a read accessor ran from the idle state and returned R.rows
Read(name, R) ==
  /\ Ran(name, R.S)
  /\ result' = R.rows
  /\ UNCHANGED inputs

GetAllAssets ==
  /\ pc = Idle /\ BelowCap
  /\ Read("get_all_assets", get_all_assets(Cur))

GetAssetProtocols(ip) ==
  /\ pc = Idle /\ BelowCap
  /\ Read("get_asset_protocols", get_asset_protocols(Cur, ip))

GetAssetConnections(ip) ==
  /\ pc = Idle /\ BelowCap
  /\ Read("get_asset_connections", get_asset_connections(Cur, ip, DefaultLimit))

\* the existence test alone: os.path.exists(f)
Exists(src) == log[src].exists

\* os.path.exists(f) and os.path.getsize(f) != 0
NonEmpty(src) == log[src].exists /\ log[src].lines # <<>>

\* open(f, 'w').close()
Truncated == [exists |-> TRUE, lines |-> <<>>]

\* parse_asset_log / parse_conn_log up to the flush; the truncation follows as
\* the step Clear, so that the producer may append in between
Parsed(name, P, read) ==
  /\ Install(P.S)
  /\ op' = [name |-> name, raised |-> P.S.exc, err |-> P.S.err, read |-> read]
  /\ pc' = IF P.cleared THEN [name |-> name, i |-> 0] ELSE Idle

ParseLog(name, src) ==
  /\ pc = Idle /\ BelowCap
  /\ IF ~NonEmpty(src)
     THEN Parsed(name, [S |-> Cur, cleared |-> FALSE], 0)
     ELSE Parsed(name, ParseSource(Cur, src, log[src].lines), Len(log[src].lines))
  /\ result' = <<>>
  /\ UNCHANGED <<faults, log, inputs>>

ParseAssetLog == ParseLog("parse_asset_log", "asset_log")
ParseConnLog == ParseLog("parse_conn_log", "conn")

ClearLog(name, src) ==
  /\ pc = [name |-> name, i |-> 0]
  /\ log' = [log EXCEPT ![src] = Truncated]
  /\ pc' = Idle
  /\ UNCHANGED <<connection, in_transaction, asset_batch, protocol_batch,
                 connection_batch, assets, protocols, connections, fault, faults,
                 inputs, submitted, op, result, ui_vars>>

ClearAssetLog == ClearLog("parse_asset_log", "asset_log")
ClearConnLog == ClearLog("parse_conn_log", "conn")

\* parse_ics_logs from the i-th log on, up to the next truncation:
\* at = i: log i was parsed and flushed and is truncated next; at = 0: done;
\* read: the lines read on the way
RECURSIVE IcsFrom(_, _, _)
IcsParsed(P, i, read) ==
  IF P.cleared THEN [S |-> P.S, at |-> i, read |-> read]
  ELSE IF P.S.exc THEN [S |-> P.S, at |-> 0, read |-> read]
  ELSE IcsFrom(P.S, i + 1, read)

IcsFrom(S, i, read) ==
  IF i > Len(ics_logs) THEN [S |-> S, at |-> 0, read |-> read]
  ELSE IF ~NonEmpty(ics_logs[i]) THEN IcsFrom(S, i + 1, read)
  ELSE IcsParsed(ParseSource(S, ics_logs[i], log[ics_logs[i]].lines), i,
                 read + Len(log[ics_logs[i]].lines))

IcsRan(R) ==
  /\ Install(R.S)
  /\ op' = [name |-> "parse_ics_logs", raised |-> R.S.exc, err |-> R.S.err,
            read |-> R.read]
  /\ pc' = IF R.at = 0 THEN Idle ELSE [name |-> "parse_ics_logs", i |-> R.at]
  /\ result' = <<>>
  /\ UNCHANGED <<faults, inputs>>

IcsStep(S, i) == IcsRan(IcsFrom(S, i, 0))

ParseIcsLogs ==
  /\ pc = Idle /\ BelowCap
  /\ IcsStep(Cur, 1)
  /\ UNCHANGED log

\* truncate the ICS log just parsed and go on with the next ones
ClearIcsLog ==
  /\ pc.name = "parse_ics_logs"
  /\ log' = [log EXCEPT ![ics_logs[pc.i]] = Truncated]
  /\ IcsStep(Cur, pc.i + 1)

\* the environment: the log producer and the persistence failures
Produces == \E src \in Sources : \E line \in Lines(src) : Produce(src, line)

Faults ==
  \/ \E at \in {"assets", "protocols", "connections"} : \E k \in 1..2 : ArmFault(at, k)
  \/ ArmFault("commit", 1)

\* direct calls of the store's write API
Calls ==
  \/ \E ip \in CallIps : \E ts \in CallTimestamps : UpdateAssetCall(ip, ts)
  \/ \E ip \in CallIps : UpdateProtocolCall(ip, JStr(TCP))
  \/ \E p \in CallPorts : UpdateConnectionCall(JStr(ip1), JStr(ip2), p, JStr(TCP))

\* flush_batch and the read accessors
Reads ==
  \/ FlushBatch
  \/ GetAllAssets
  \/ \E ip \in CallIps : GetAssetProtocols(ip)
  \/ \E ip \in CallIps : GetAssetConnections(ip)

\* the ingestion passes
Passes ==
  \/ ParseAssetLog
  \/ ClearAssetLog
  \/ ParseConnLog
  \/ ClearConnLog
  \/ ParseIcsLogs
  \/ ClearIcsLog

Next == Produces \/ Faults \/ Calls \/ Reads \/ Passes

Spec == Init /\ [][Next]_vars

\* the store driven through its API only
NextApi == Faults \/ Calls \/ Reads

SpecApi == Init /\ [][NextApi]_vars

\* the store driven by the log parsers only; the flushes that fail are those
\* the content of the sources makes fail
NextIngest == Produces \/ Reads \/ Passes

SpecIngest == Init /\ [][NextIngest]_vars

\* ----------------------------------------------------- vocabulary of claims
IpsOf(rows) == {rows[i].ip : i \in DOMAIN rows}

\* the persisted counter of an (ip, protocol) pair, 0 if it has no row
ProtocolCount(rows, pr) ==
  LET m == {i \in DOMAIN rows : rows[i].ip = pr[1] /\ rows[i].protocol = pr[2]} IN
  IF m = {} THEN 0 ELSE rows[CHOOSE i \in m : TRUE].packet_count

\* the persisted counter of a connection key, 0 if it has no row
ConnectionCount(rows, key) ==
  LET m == {i \in DOMAIN rows : SameKey(rows[i], key)} IN
  IF m = {} THEN 0 ELSE rows[CHOOSE i \in m : TRUE].packet_count

PendingEmpty == asset_batch = <<>> /\ protocol_batch = <<>> /\ connection_batch = <<>>

\* this step commits every upsert that was pending before it
AllCommitted ==
  /\ \A i \in DOMAIN asset_batch : HasAsset(assets', asset_batch[i].ip)
  /\ \A pr \in Range(ProtocolPairs(protocol_batch)) :
       ProtocolCount(protocols', pr) = ProtocolCount(protocols, pr) + 1
  /\ \A key \in Range(connection_batch) :
       ConnectionCount(connections', key) = ConnectionCount(connections, key) + 1

\* this step leaves the store as it was
NoneCommitted == UNCHANGED <<assets, protocols, connections>>

\* the handler of this step returned and no persistence failure was reported
Clean == ~op'.raised /\ op'.err = {}

\* ------------------------------------------------------------------ claims
\* C1: flush_batch is all-or-nothing: every flush, also one in which a
\* statement of one pending map fails, commits every pending Host,
\* ProtocolObservation and Connection upsert of the batch or none of them.
C1_AllOrNothing ==
  [][FlushBatch /\ connection => AllCommitted \/ NoneCommitted]_vars

\* C2: every read accessor returns rows that include every host, protocol
\* observation and connection that was accepted into the pending batch before
\* the call, in every reachable state (also the first read after start).
C2_ReadsSeePending ==
  [][/\ GetAllAssets /\ Clean
        => \A i \in DOMAIN asset_batch : asset_batch[i].ip \in IpsOf(result')
     /\ \A ip \in CallIps :
          GetAssetProtocols(ip) /\ Clean
            => \A pr \in Range(ProtocolPairs(protocol_batch)) :
                 pr[1] = ip.s => \E i \in DOMAIN result' : result'[i].protocol = pr[2]
     /\ \A ip \in CallIps :
          GetAssetConnections(ip) /\ Clean
            => \A key \in Range(connection_batch) :
                 key[1] = ip.s =>
                   \E i \in DOMAIN result' :
                     /\ result'[i].dest_ip = key[2]
                     /\ result'[i].dest_port = key[3]
                     /\ result'[i].protocol = key[4]
    ]_vars

\* C5: when flush_batch returns after a persistence failure at any step
\* (BEGIN, an upsert statement, COMMIT), the transaction is rolled back and
\* the three pending maps are empty.
C5_FailureRollsBackAndClears ==
  [][FlushBatch /\ connection /\ ~op'.raised /\ op'.err # {}
       => ~in_transaction' /\ NoneCommitted /\ PendingEmpty']_vars

\* this step is a flush that opens a transaction and commits it without failure
CommittingFlush ==
  /\ connection /\ ~in_transaction
  /\ Clean
  /\ FlushBatch \/ GetAllAssets

\* C6: a key submitted k >= 1 times between two flushes has its persisted
\* counter raised by exactly 1 by the flush that commits the batch (created
\* with counter 1 if absent), whatever k is.
C6_OneIncrementPerKey ==
  [][CommittingFlush =>
       /\ \A pr \in Range(submitted.protocols) :
            ProtocolCount(protocols', pr) = ProtocolCount(protocols, pr) + 1
       /\ \A key \in Range(submitted.connections) :
            ConnectionCount(connections', key) = ConnectionCount(connections, key) + 1
    ]_vars

\* a pair submitted twice in one batch was committed and counts 1
C6_Witness ==
  /\ op.name = "flush_batch" /\ ~op.raised /\ op.err = {}
  /\ Occurrences(submitted.committed.protocols, <<ip1, TCP>>) = 2
  /\ ProtocolCount(protocols, <<ip1, TCP>>) = 1

\* C8: at most one Host row per IP, one ProtocolObservation row per
\* (ip, protocol) and one Connection row per (source ip, dest ip, dest port,
\* protocol), however often a key is upserted across batches.
C8_KeyUniqueness ==
  /\ \A i, j \in DOMAIN assets : assets[i].ip = assets[j].ip => i = j
  /\ \A i, j \in DOMAIN protocols :
       protocols[i].ip = protocols[j].ip /\ protocols[i].protocol = protocols[j].protocol
         => i = j
  /\ \A i, j \in DOMAIN connections :
       SameKey(connections[i], <<connections[j].source_ip, connections[j].dest_ip,
                                 connections[j].dest_port, connections[j].protocol>>)
         => i = j

\* the same pair was upserted by two batches
C8_Witness == \E i \in DOMAIN protocols : protocols[i].packet_count >= 2

StoreEmpty == assets = <<>> /\ protocols = <<>> /\ connections = <<>>

\* a valid host-sighting line for a non-broadcast, non-multicast IP
ValidHostLine(line) ==
  /\ line.kind = "json" /\ line.data.t = "obj"
  /\ is_valid_ip(Get(line.data, "ip", JNull))
  /\ ~is_broadcast_or_multicast(Get(line.data, "ip", JNull))
  /\ "mac" \in DOMAIN line.data.f
       => /\ MatchesMac(line.data.f["mac"].s)
          /\ LowerMac(line.data.f["mac"].s) # BroadcastMac
  /\ Get(line.data, "ts", JNum(1)).t = "num"

\* N valid host-sighting lines for N distinct IPs
DistinctHostLines(lines) ==
  /\ \A i \in DOMAIN lines : ValidHostLine(lines[i])
  /\ \A i, j \in DOMAIN lines : lines[i].data.f["ip"] = lines[j].data.f["ip"] => i = j

\* C3: starting from an empty store, after parse_asset_log ingests a source
\* of N valid host-sighting lines for N distinct IPs, the next get_all_assets
\* call returns exactly N rows, whose IPs are those N addresses.
C3_RoundTrip ==
  [][/\ ParseAssetLog /\ NonEmpty("asset_log")
     /\ StoreEmpty /\ PendingEmpty /\ ~in_transaction
     /\ DistinctHostLines(log["asset_log"].lines)
     => /\ Len(get_all_assets(Cur).rows)' = Len(log["asset_log"].lines)
        /\ IpsOf(get_all_assets(Cur).rows)'
             = {log["asset_log"].lines[i].data.f["ip"].s :
                  i \in DOMAIN log["asset_log"].lines}
    ]_vars

\* the source exists and holds nothing: a pass cleared it, nothing was appended
Cleared(src) == log[src].exists /\ log[src].lines = <<>>

\* C4: running an ingestion pass again over a source the previous pass
\* cleared, with no new line appended, adds no row to any table and changes
\* no counter of the store.
C4_ClearedSourceIdempotent ==
  [][\/ Cleared("asset_log") /\ ParseAssetLog
     \/ Cleared("conn") /\ ParseConnLog
     \/ /\ \E src \in Range(ics_logs) : Cleared(src)
        /\ \A src \in Range(ics_logs) : log[src].lines = <<>>
        /\ ParseIcsLogs
     => NoneCommitted /\ UNCHANGED <<asset_batch, protocol_batch, connection_batch>>
    ]_vars

\* parse_asset_log ran again over the source it had cleared (it read no
\* line), after the hosts of the first pass were committed
C4_Witness ==
  /\ op.name = "parse_asset_log" /\ op.read = 0
  /\ Cleared("asset_log")
  /\ assets # <<>>

\* C7: across any sequence of update_*, flush, parse and read operations,
\* failed flushes included, no Host, ProtocolObservation or Connection row is
\* ever deleted and no persisted counter ever decreases.
C7_AppendOrIncrementOnly ==
  [][/\ \A i \in DOMAIN assets : HasAsset(assets', assets[i].ip)
     /\ \A i \in DOMAIN protocols :
          ProtocolCount(protocols', <<protocols[i].ip, protocols[i].protocol>>)
            >= protocols[i].packet_count
     /\ \A i \in DOMAIN connections :
          ConnectionCount(connections',
                          <<connections[i].source_ip, connections[i].dest_ip,
                            connections[i].dest_port, connections[i].protocol>>)
            >= connections[i].packet_count
    ]_vars

\* a flush of parse_asset_log failed and the rows stored before are there
C7_Witness ==
  /\ op.name = "parse_asset_log" /\ op.err # {}
  /\ assets # <<>>

BroadcastAddresses == {Broadcast255, Multicast230}

\* C9: whatever the asset, connection and application-protocol sources hold,
\* no Host, ProtocolObservation or Connection row (as source or destination)
\* carries 10.0.0.255 or 230.1.1.1 after ingestion by the parsers.
C9_NoBroadcastRows ==
  /\ \A i \in DOMAIN assets : assets[i].ip \notin BroadcastAddresses
  /\ \A i \in DOMAIN protocols : protocols[i].ip \notin BroadcastAddresses
  /\ \A i \in DOMAIN connections :
       /\ connections[i].source_ip \notin BroadcastAddresses
       /\ connections[i].dest_ip \notin BroadcastAddresses

\* parse_asset_log read a sighting of 10.0.0.255 followed by a sighting of
\* 10.0.0.2 and committed the second
C9_Witness ==
  /\ pc.name = "parse_asset_log"
  /\ log["asset_log"].lines
       = <<AssetRecord(Broadcast255, JNum(1)), AssetRecord(ip2, JNum(2))>>
  /\ IpsOf(assets) = {ip2}

\* a connection record whose responder port is an integer out of range
OutOfRangeRecord(line) ==
  /\ line.kind = "json" /\ line.data.t = "obj"
  /\ Get(line.data, "id.resp_p", JNull).t = "num"
  /\ Get(line.data, "id.resp_p", JNull).n \notin 0..MaxPort

ValidEndpoint(ip) == is_valid_ip(ip) /\ ~is_broadcast_or_multicast(ip)

\* the Host and ProtocolObservation intents of an endpoint are pending or stored
HostIntent(ip) == HasAsset(assets, ip.s) \/ InAssetBatch(asset_batch, ip.s)
ProtocolIntent(ip, proto) ==
  \/ ProtocolCount(protocols, <<ip.s, proto>>) > 0
  \/ <<ip.s, proto>> \in Range(ProtocolPairs(protocol_batch))

\* C10: a connection record whose responder port is out of range produces no
\* Connection row, and the Host and ProtocolObservation intents of each
\* endpoint that is itself valid are still produced from that line.
C10_OutOfRangePort ==
  [][ParseConnLog /\ NonEmpty("conn") /\ Clean =>
       \A i \in DOMAIN log["conn"].lines :
         LET line == log["conn"].lines[i] IN
         OutOfRangeRecord(line) =>
           /\ \A j \in DOMAIN connections' :
                connections'[j].dest_port # line.data.f["id.resp_p"].n
           /\ \A key \in Range(connection_batch') : key[3] # line.data.f["id.resp_p"].n
           /\ \A ep \in {Get(line.data, "id.orig_h", JNull),
                         Get(line.data, "id.resp_h", JNull)} :
                ValidEndpoint(ep) =>
                  /\ HostIntent(ep)'
                  /\ ProtocolIntent(ep, Upper(Get(line.data, "proto", JStr(Unknown)).s))'
    ]_vars

\* ------------------------------------------- the host-sighting parser alone
\* 'FF:FF:FF:FF:FF:FF'
BroadcastMacUpper == [i \in 1..6 |-> <<"F", "F">>]

\* the host-sighting lines of the producer, with broadcast hardware addresses
HostLines ==
  Lines("asset_log")
    \cup { AssetRecordMac(ip2, BroadcastMac, JNum(2)),
           AssetRecordMac(ip2, BroadcastMacUpper, JNum(2)) }

NextAsset ==
  \/ \E line \in HostLines : Produce("asset_log", line)
  \/ ParseAssetLog
  \/ ClearAssetLog
  \/ FlushBatch
  \/ GetAllAssets

SpecAsset == Init /\ [][NextAsset]_vars

\* the line with its hardware-address field omitted, if that is ff:ff:ff:ff:ff:ff
OmitBroadcastMac(line) ==
  IF /\ line.kind = "json" /\ line.data.t = "obj"
     /\ "mac" \in DOMAIN line.data.f
     /\ IsStr(line.data.f["mac"])
     /\ LowerMac(line.data.f["mac"].s) = BroadcastMac
  THEN Json(JObj([k \in DOMAIN line.data.f \ {"mac"} |-> line.data.f[k]]))
  ELSE line

HasBroadcastMac(lines) == \E i \in DOMAIN lines : OmitBroadcastMac(lines[i]) # lines[i]

\* C11: in host-sighting parsing a hardware address ff:ff:ff:ff:ff:ff (any
\* letter case) is treated as absent: the pass leaves the pending batch and
\* the store as the same lines with that field omitted do, so a line with a
\* valid IP still yields a Host intent without hardware address.
C11_BroadcastMacAbsent ==
  [][NonEmpty("asset_log") /\ ParseAssetLog =>
       LET omitted == [i \in DOMAIN log["asset_log"].lines |->
                         OmitBroadcastMac(log["asset_log"].lines[i])]
       IN /\ asset_batch' = ParseSource(Cur, "asset_log", omitted).S.ab
          /\ assets' = ParseSource(Cur, "asset_log", omitted).S.assets
    ]_vars

\* a connection record with two valid endpoints, neither broadcast nor multicast
ValidConnLine(line) ==
  /\ line.kind = "json" /\ line.data.t = "obj"
  /\ ValidEndpoint(Get(line.data, "id.orig_h", JNull))
  /\ ValidEndpoint(Get(line.data, "id.resp_h", JNull))
  /\ IsStr(Get(line.data, "proto", JStr(Unknown)))

\* C12: a line that is no recognized record (not JSON, JSON that is not an
\* object, an object with the address or protocol fields missing or
\* mistyped) is skipped, and every valid line of the same source is still
\* parsed and aggregated in the same pass.
C12_SkipsUnrecognizedLines ==
  [][/\ NonEmpty("asset_log") /\ ParseAssetLog /\ Clean
        => \A i \in DOMAIN log["asset_log"].lines :
             ValidHostLine(log["asset_log"].lines[i])
               => HostIntent(log["asset_log"].lines[i].data.f["ip"])'
     /\ NonEmpty("conn") /\ ParseConnLog /\ Clean
        => \A i \in DOMAIN log["conn"].lines :
             ValidConnLine(log["conn"].lines[i])
               => /\ HostIntent(log["conn"].lines[i].data.f["id.orig_h"])'
                  /\ HostIntent(log["conn"].lines[i].data.f["id.resp_h"])'
    ]_vars

\* a record with two address texts of which exactly one passes validation and
\* the broadcast/multicast filter
OneValidEndpoint(line) ==
  /\ line.kind = "json" /\ line.data.t = "obj"
  /\ IsStr(Get(line.data, "id.orig_h", JNull))
  /\ IsStr(Get(line.data, "id.resp_h", JNull))
  /\ ValidEndpoint(line.data.f["id.orig_h"]) # ValidEndpoint(line.data.f["id.resp_h"])

\* the endpoint of such a record that is valid
TheValidEndpoint(line) ==
  IF ValidEndpoint(line.data.f["id.orig_h"])
  THEN line.data.f["id.orig_h"] ELSE line.data.f["id.resp_h"]

\* C13: an endpoint address that fails validation or the broadcast/multicast
\* filter drops only that endpoint's intents: in a connection record and in
\* an application-protocol record with exactly one such endpoint, the Host
\* and ProtocolObservation intents of the other endpoint are still produced.
C13_OnlyThatEndpointDropped ==
  [][/\ /\ NonEmpty("conn") /\ ParseConnLog /\ Clean
        /\ ~ParseLines(Cur, "conn", log["conn"].lines, 1).exc
        => \A i \in DOMAIN log["conn"].lines :
             LET line == log["conn"].lines[i] IN
             OneValidEndpoint(line) /\ IsStr(Get(line.data, "proto", JStr(Unknown)))
               => /\ HostIntent(TheValidEndpoint(line))'
                  /\ ProtocolIntent(TheValidEndpoint(line),
                                    Upper(Get(line.data, "proto", JStr(Unknown)).s))'
     /\ \A k \in DOMAIN ics_logs :
          /\ ParseIcsLogs /\ Clean
          /\ pc'.name = "parse_ics_logs" /\ pc'.i = k
          => \A i \in DOMAIN log[ics_logs[k]].lines :
               LET line == log[ics_logs[k]].lines[i] IN
               OneValidEndpoint(line)
                 => /\ HostIntent(TheValidEndpoint(line))'
                    /\ ProtocolIntent(TheValidEndpoint(line), ProtocolName(ics_logs[k]))'
    ]_vars

\* ------------------------------------------- update_asset with a MAC
Mac0b == [i \in 1..6 |-> <<"0", "b">>]

\* 'zz'
BadMac == << <<"z", "z">> >>

\* the mac arguments of the direct calls: None, '', two valid ones, 'zz'
CallMacs == {JNull, JStr(<<>>), JStr(Mac0a), JStr(Mac0b), JStr(BadMac)}

CallTimes == {JNum(1), JNum(2)}

\* update_asset ran from the idle state and ended in state S; the history
\* keeps the mac argument of the call
Called(S, mac) ==
  /\ Install(S)
  /\ op' = [name |-> "update_asset", raised |-> S.exc, err |-> S.err,
            read |-> 0, mac |-> mac]
  /\ UNCHANGED <<faults, log, pc>>

UpdateAssetMacCall(ip, mac, ts) ==
  /\ pc = Idle /\ BelowCap
  /\ inputs < MaxInputs
  /\ inputs' = inputs + 1
  /\ Called(update_asset(Cur, ip, mac, ts), mac)
  /\ result' = <<>>

NextHost ==
  \/ \E ip \in CallIps : \E mac \in CallMacs : \E ts \in CallTimes :
       UpdateAssetMacCall(ip, mac, ts)
  \/ FlushBatch
  \/ GetAllAssets

SpecHost == Init /\ [][NextHost]_vars

\* the pending entry of ip
Pending(ab, ip) == ab[CHOOSE i \in DOMAIN ab : ab[i].ip = ip]

\* C14: once an IP has a pending Host entry, its pending first-seen
\* timestamp is never altered by a later update_asset call for the same IP
\* before the next flush, whatever MAC or timestamp the call supplies.
C14_FirstSeenNeverAltered ==
  [][\A ip \in CallIps : \A mac \in CallMacs : \A ts \in CallTimes :
       /\ InAssetBatch(asset_batch, ip.s)
       /\ UpdateAssetMacCall(ip, mac, ts)
       /\ InAssetBatch(asset_batch', ip.s)
       => Pending(asset_batch, ip.s).timestamp' = Pending(asset_batch, ip.s).timestamp
    ]_vars

\* a non-empty valid hardware address
SuppliesMac(mac) == Truthy(mac) /\ is_valid_mac(mac)

\* C15: within one batch the pending MAC of an IP is the last non-empty
\* valid MAC supplied for it (the supplied empty or absent value if none
\* was): a call with a non-empty valid MAC sets it, a call with an empty or
\* absent MAC never overwrites a pending entry, and a call with an invalid
\* MAC changes nothing.
C15_LastNonEmptyMacWins ==
  [][\A ip \in CallIps : \A mac \in CallMacs : \A ts \in CallTimes :
       /\ UpdateAssetMacCall(ip, mac, ts)
       /\ asset_batch' # <<>>
       => /\ SuppliesMac(mac) => Pending(asset_batch, ip.s).mac' = mac
          /\ ~Truthy(mac) /\ InAssetBatch(asset_batch, ip.s)
               => Pending(asset_batch, ip.s).mac' = Pending(asset_batch, ip.s).mac
          /\ ~Truthy(mac) /\ ~InAssetBatch(asset_batch, ip.s)
               => Pending(asset_batch, ip.s).mac' = mac
          /\ Truthy(mac) /\ ~is_valid_mac(mac) => asset_batch' = asset_batch
    ]_vars

\* a pending non-empty MAC has survived a later call without one
C15_Witness ==
  /\ op.name = "update_asset" /\ "mac" \in DOMAIN op /\ ~Truthy(op.mac)
  /\ \E i \in DOMAIN asset_batch : Truthy(asset_batch[i].mac)

\* ------------------------------------------------- the flush threshold
\* 'A,B,C,D,E,F'
SixNames == <<"A", ",", "B", ",", "C", ",", "D", ",", "E", ",", "F">>

\* the counters of get_batch_stats
get_batch_stats(S) ==
  [assets_queued |-> Len(S.ab),
   protocols_queued |-> Len(ProtocolPairs(S.pb)),
   connections_queued |-> Len(S.cb),
   batch_size |-> batch_size]

NextBatch ==
  \/ Calls
  \/ \E ip \in CallIps : UpdateProtocolCall(ip, JStr(SixNames))
  \/ Reads

SpecBatch == Init /\ [][NextBatch]_vars

\* C16: with an open store connection and no persistence failure, after any
\* update_asset, update_protocol or update_connection call returns, the
\* pending hosts, pending (ip, protocol) pairs and pending connection keys
\* reported by get_batch_stats total less than the batch-size threshold.
C16_FlushAtThreshold ==
  [][/\ connection
     /\ op'.name \in {"update_asset", "update_protocol", "update_connection"}
     /\ Clean
     => get_batch_stats(Cur).assets_queued'
          + get_batch_stats(Cur).protocols_queued'
          + get_batch_stats(Cur).connections_queued' < batch_size
    ]_vars

\* ------------------------------------------------------- refresh_data
\* The state of one invocation of refresh_data: the application state S, the
\* log files, the sources whose parser was called (passed) and the sources
\* whose pass ended in the except handler (failed).
AfterPass(R, src, P) ==
  [R EXCEPT !.S = P.S,
            !.log = IF P.cleared THEN [@ EXCEPT ![src] = Truncated] ELSE @,
            !.passed = @ \cup {src},
            !.failed = IF P.cleared THEN @ ELSE @ \cup {src}]

\* one parser call of refresh_data; an exception that left an earlier call
\* has ended the invocation
Pass(R, src) ==
  IF R.S.exc THEN R
  ELSE IF ~(R.log[src].exists /\ R.log[src].lines # <<>>)
  THEN [R EXCEPT !.passed = @ \cup {src}]
  ELSE AfterPass(R, src, ParseSource(R.S, src, R.log[src].lines))

\* refresh_ui() and the asset count: get_all_assets() twice
Counted(R, A) == [R EXCEPT !.S = A.S, !.rows = A.rows]
Shown(R, A) == IF A.S.exc THEN Counted(R, A) ELSE Counted(R, get_all_assets(A.S))
RefreshUi(R) == IF R.S.exc THEN R ELSE Shown(R, get_all_assets(R.S))

Refreshed(R) ==
  /\ Install(R.S)
  /\ log' = R.log
  /\ op' = [name |-> "refresh_data", raised |-> R.S.exc, err |-> R.S.err,
            read |-> 0, passed |-> R.passed, failed |-> R.failed]
  /\ result' = R.rows
  /\ pc' = Idle
  /\ UNCHANGED <<faults, inputs>>

\* parse_asset_log(); parse_conn_log(); refresh_ui(); get_all_assets()
RefreshData ==
  /\ pc = Idle /\ BelowCap
  /\ Refreshed(RefreshUi(Pass(Pass([S |-> Cur, log |-> log, passed |-> {},
                                    failed |-> {}, rows |-> <<>>],
                                   "asset_log"), "conn")))

NextRefresh == Produces \/ RefreshData

SpecRefresh == Init /\ [][NextRefresh]_vars

\* C17: each invocation of refresh_data performs one pass over every known
\* log source: the host-sighting source, the connection source and each of
\* the modbus, enip and s7comm sources; a source that is non-empty when the
\* invocation starts is parsed and, unless its pass fails, cleared by it.
C17_OnePassPerSource ==
  [][RefreshData /\ ~op'.raised =>
       \A src \in Sources :
         NonEmpty(src) => /\ src \in op'.passed
                          /\ src \notin op'.failed => log'[src] = Truncated
    ]_vars

\* this step truncates a source
Truncates ==
  \/ pc.name = "parse_asset_log" /\ ClearAssetLog
  \/ pc.name = "parse_conn_log" /\ ClearConnLog
  \/ pc.name = "parse_ics_logs" /\ ClearIcsLog

\* C18: a source is truncated only after all of its lines were parsed and a
\* flush was performed: at the moment a source is truncated the pending batch
\* is empty (every intent of the source was committed, or discarded by a
\* failed flush).
C18_TruncateAfterFlush ==
  [][Truncates => PendingEmpty]_vars

\* the line loop over the source raises when run from the current state
LoopRaises(src) == ParseLines(Cur, src, log[src].lines, 1).exc

\* C19: a failure in the middle of a pass of parse_asset_log or
\* parse_conn_log (an exception while the lines of the source are parsed)
\* leaves that source file unmodified: the pass neither truncates the file
\* nor goes on to truncate it, so all of its lines remain for the next pass.
C19_FailedPassKeepsSource ==
  [][/\ NonEmpty("asset_log") /\ ParseAssetLog /\ LoopRaises("asset_log")
        => log' = log /\ pc' = Idle
     /\ NonEmpty("conn") /\ ParseConnLog /\ LoopRaises("conn")
        => log' = log /\ pc' = Idle
    ]_vars

\* a pass has read both lines of the connection source, failed, and left
\* them in the file
C19_Witness ==
  /\ op.name = "parse_conn_log" /\ op.read = 2 /\ pc = Idle
  /\ Len(log["conn"].lines) = 2
  /\ LoopRaises("conn")

\* ------------------------------------------------ get_protocols_summary
\* ", ".join(names) as a text
RECURSIVE Join(_)
Join(names) ==
  IF names = <<>> THEN <<>>
  ELSE IF Len(names) = 1 THEN names[1]
  ELSE names[1] \o <<",", " ">> \o Join(Tail(names))

TopFive == 5

\* "None" without protocols, else the names of the first five rows
Summary(R) ==
  [S |-> R.S,
   rows |-> IF R.rows = <<>> THEN <<"N", "o", "n", "e">>
            ELSE Join([i \in DOMAIN Limit(R.rows, TopFive) |-> R.rows[i].protocol])]

get_protocols_summary(S, ip) == Summary(get_asset_protocols(S, ip))

GetProtocolsSummary(ip) ==
  /\ pc = Idle /\ BelowCap
  /\ Read("get_protocols_summary", get_protocols_summary(Cur, ip))

NextSummary ==
  \/ Calls
  \/ FlushBatch
  \/ \E ip \in CallIps : GetProtocolsSummary(ip)

SpecSummary == Init /\ [][NextSummary]_vars

\* C20: in every reachable state, two consecutive calls of
\* get_protocols_summary for the same IP with no ingestion call between them
\* return identical output: the text a call returns is the text the next
\* call returns from the state the first one leaves.
C20_SummaryIdempotent ==
  [][\A ip \in CallIps :
       GetProtocolsSummary(ip) => get_protocols_summary(Cur, ip).rows' = result'
    ]_vars

\* the ingestion entry points
IngestionCalls == {"parse_asset_log", "parse_conn_log", "parse_ics_logs", "flush_batch"}

\* C21: no failure terminates ingestion: for every source content,
\* parse_asset_log, parse_conn_log, parse_ics_logs and flush_batch return
\* normally; no exception reaches the caller.
C21_NoExceptionReachesCaller ==
  op.name \in IngestionCalls => ~op.raised

\* ---------------------------------------- connection records at the limits
\* 't c'
BadProto == <<"t", " ", "c">>

\* connection records with the boundary ports and with an invalid transport
\* protocol name
ConnLines ==
  { ConnRecord(ip1, ip2, 0, tcp), ConnRecord(ip1, ip2, MaxPort, tcp),
    ConnRecord(ip1, ip2, 502, tcp), ConnRecord(ip1, ip2, 502, BadProto) }

NextConn ==
  \/ \E line \in ConnLines : Produce("conn", line)
  \/ ParseConnLog
  \/ ClearConnLog
  \/ GetAllAssets
  \/ GetAssetConnections(JStr(ip1))

SpecConn == Init /\ [][NextConn]_vars

\* the key of a connection record
KeyOf(line) ==
  << line.data.f["id.orig_h"].s, line.data.f["id.resp_h"].s,
     line.data.f["id.resp_p"].n, Upper(line.data.f["proto"].s) >>

\* the Connection intent of a key is pending or stored
ConnectionIntent(key) ==
  InSeq(connection_batch, key) \/ ConnectionCount(connections, key) > 0

\* a connection record with valid endpoints, a valid protocol name and an
\* integer port within [0, 65535]
InRangeRecord(line) ==
  /\ ValidConnLine(line)
  /\ "proto" \in DOMAIN line.data.f /\ MatchesName(line.data.f["proto"].s)
  /\ Get(line.data, "id.resp_p", JNull).t = "num"
  /\ Get(line.data, "id.resp_p", JNull).n \in 0..MaxPort

\* C22: a connection record whose origin and responder addresses are valid
\* and whose responder port is an integer in [0, 65535], the boundary values
\* 0 and 65535 included, produces the Connection intent for the key
\* (origin, responder, port, protocol).
C22_BoundaryPorts ==
  [][NonEmpty("conn") /\ ParseConnLog /\ Clean /\ ~LoopRaises("conn") =>
       \A i \in DOMAIN log["conn"].lines :
         InRangeRecord(log["conn"].lines[i])
           => ConnectionIntent(KeyOf(log["conn"].lines[i]))'
    ]_vars

\* ------------------------------------------------------ capped accessors
\* scaled-down maximum row count, passed as the limit of get_asset_connections
RowCap == 1

get_asset_connections_capped(ip) ==
  /\ pc = Idle /\ BelowCap
  /\ Read("get_asset_connections", get_asset_connections(Cur, ip, RowCap))

NextCap ==
  \/ \E ip \in CallIps : \E names \in {TCP, SixNames} : UpdateProtocolCall(ip, JStr(names))
  \/ \E p \in {502, 503} : UpdateConnectionCall(JStr(ip1), JStr(ip2), JNum(p), JStr(TCP))
  \/ FlushBatch
  \/ \E ip \in CallIps : GetAssetProtocols(ip)
  \/ \E ip \in CallIps : get_asset_connections_capped(ip)

SpecCap == Init /\ [][NextCap]_vars

\* C23: both per-host list accessors are capped: get_asset_protocols(ip) and
\* get_asset_connections(ip) each return at most the maximum row count of
\* rows, however many rows the store holds for that host.
C23_AccessorsCapped ==
  op.name \in {"get_asset_protocols", "get_asset_connections"}
    => Len(result) <= RowCap

\* ------------------------------------------------- summaries of names
\* 'None' as a protocol name
NoneName == <<"N", "o", "n", "e">>

NextNames ==
  \/ \E ip \in CallIps : \E names \in {TCP, NoneName, SixNames} :
       UpdateProtocolCall(ip, JStr(names))
  \/ FlushBatch
  \/ \E ip \in CallIps : GetProtocolsSummary(ip)

SpecNames == Init /\ [][NextNames]_vars

\* the persisted protocol rows of a host, highest counter first
Persisted(ip) == SortDesc(SelectSeq2(protocols, "ip", ip.s))

\* the names of the first min(5, n) of n rows
TopNames(rows) == [i \in 1..(IF Len(rows) > 5 THEN 5 ELSE Len(rows)) |-> rows[i].protocol]

FlushHosts ==
  /\ pc = Idle /\ BelowCap
  /\ Install(flush_batch(Cur))
  /\ op' = [name |-> "flush_batch", raised |-> flush_batch(Cur).exc,
            err |-> flush_batch(Cur).err, read |-> 0, hosts |-> asset_batch]
  /\ result' = <<>>
  /\ UNCHANGED <<faults, log, pc, inputs>>

NextSeen ==
  \/ \E ip \in CallIps : \E mac \in CallMacs : \E ts \in CallTimes :
       UpdateAssetMacCall(ip, mac, ts)
  \/ FlushHosts
  \/ GetAllAssets

SpecSeen == Init /\ [][NextSeen]_vars

\* C25: persisted first-seen is immutable once set: once a Host row has a
\* non-null first_seen, no later step (no flush of any batch, whatever
\* timestamps the later sightings of that IP carry) changes it.
C25_FirstSeenImmutable ==
  [][\A i \in DOMAIN assets :
       assets[i].first_seen # JNull
         => \E j \in DOMAIN assets' :
              /\ assets'[j].ip = assets[i].ip
              /\ assets'[j].first_seen = assets[i].first_seen
    ]_vars

\* a flush of a pending sighting with another timestamp has left the
\* first_seen of the host's row as it was
C25_Witness ==
  /\ op.name = "flush_batch" /\ "hosts" \in DOMAIN op /\ ~in_transaction
  /\ \E i \in DOMAIN op.hosts : \E j \in DOMAIN assets :
       /\ assets[j].ip = op.hosts[i].ip
       /\ op.hosts[i].timestamp = JNum(2)
       /\ assets[j].first_seen = JNum(1)

\* validate_protocol_name: letters, digits, underscore and hyphen only,
\* not empty, at most 50 characters
ValidName(proto) == MatchesName(proto) /\ Len(proto) <= MaxProtoLen

\* C26: protocol-name validation applies to every persisted protocol field:
\* no ProtocolObservation row and no Connection row carries a protocol name
\* that is empty, longer than 50 characters or has a character other than
\* letters, digits, underscore and hyphen; a connection record with such a
\* transport protocol yields no Connection intent.
C26_ProtocolNamesValid ==
  /\ \A i \in DOMAIN protocols : ValidName(protocols[i].protocol)
  /\ \A i \in DOMAIN connections : ValidName(connections[i].protocol)
  /\ \A i \in DOMAIN connection_batch : ValidName(connection_batch[i][4])

\* C27: no appended line is lost: a valid line the producer appends to a
\* source after the pass has read to the end of the file and before the pass
\* truncates it is not discarded unprocessed; when the pass truncates the
\* file, the file holds no valid line the pass has not read.
C27_NoAppendedLineLost ==
  [][/\ pc.name = "parse_asset_log" /\ ClearAssetLog
        => \A i \in DOMAIN log["asset_log"].lines :
             i > op.read => ~ValidHostLine(log["asset_log"].lines[i])
     /\ pc.name = "parse_conn_log" /\ ClearConnLog
        => \A i \in DOMAIN log["conn"].lines :
             i > op.read => ~ValidConnLine(log["conn"].lines[i])
    ]_vars

\* ------------------------------------------------------- convergence
AllSourcesEmpty == \A src \in Sources : log[src].lines = <<>>

ProtocolKeys(rows) == {<<rows[i].ip, rows[i].protocol>> : i \in DOMAIN rows}
ConnectionKeys(rows) ==
  {<<rows[i].source_ip, rows[i].dest_ip, rows[i].dest_port, rows[i].protocol>> :
     i \in DOMAIN rows}

\* this step leaves the sources, the pending batch, the connection state and
\* the rows as they were, counters apart: the next invocation of
\* refresh_data does the same again
Repeats ==
  /\ UNCHANGED <<log, connection, in_transaction, asset_batch, protocol_batch,
                 connection_batch, assets, fault>>
  /\ ProtocolKeys(protocols') = ProtocolKeys(protocols)
  /\ ConnectionKeys(connections') = ConnectionKeys(connections)

\* C28: for any finite content of the sources and no further appends,
\* repeated invocations of refresh_data eventually reach a state in which
\* every source is empty: no invocation that starts with a non-empty source
\* leaves everything but the counters as it was (from such a state every
\* later invocation repeats itself, the sources never become empty and the
\* lines that are read are counted again by every pass).
C28_Converges ==
  [][~AllSourcesEmpty /\ RefreshData => ~Repeats]_vars

\* every ProtocolObservation row's ip and every Connection row's source and
\* destination ip has a Host row
Referenced ==
  /\ \A i \in DOMAIN protocols : HasAsset(assets, protocols[i].ip)
  /\ \A i \in DOMAIN connections :
       /\ HasAsset(assets, connections[i].source_ip)
       /\ HasAsset(assets, connections[i].dest_ip)

\* C29: referential integrity of committed state: when no persistence
\* failure occurs, every step (every flush reached through the parsers
\* included) that starts with every ProtocolObservation and Connection row
\* referring to Host rows ends so.
C29_ReferentialIntegrity ==
  [][Referenced /\ Clean => Referenced']_vars

\* a pass over the connection source has committed a connection whose
\* endpoints have Host rows
C29_Witness ==
  /\ op.name = "parse_conn_log" /\ ~op.raised /\ op.err = {}
  /\ connections # <<>> /\ protocols # <<>>
  /\ Referenced

\* ------------------------------------------------------- counter bound
\* the update_protocol calls a well-formed connection record makes for an
\* (ip, protocol) key and that are accepted
ProtocolCalls(line, key) ==
  LET name == Upper(line.data.f["proto"].s)
      hit(ip) == IF ip.s = key[1] /\ is_valid_ip(ip) /\ name = key[2] /\ ValidName(name)
                 THEN 1 ELSE 0
  IN hit(line.data.f["id.orig_h"]) + hit(line.data.f["id.resp_h"])

\* the accepted update_connection calls it makes for a connection key
ConnectionCalls(line, key) ==
  IF /\ KeyOf(line) = key
     /\ Truthy(line.data.f["id.resp_p"]) /\ PortInRange(line.data.f["id.resp_p"])
  THEN 1 ELSE 0

RECURSIVE AcceptedProtocols(_, _)
AcceptedProtocols(lines, key) ==
  IF lines = <<>> THEN 0
  ELSE ProtocolCalls(lines[1], key) + AcceptedProtocols(Tail(lines), key)

RECURSIVE AcceptedConnections(_, _)
AcceptedConnections(lines, key) ==
  IF lines = <<>> THEN 0
  ELSE ConnectionCalls(lines[1], key) + AcceptedConnections(Tail(lines), key)

\* the persisted counter of a key, plus one while the key is pending
ProtocolDue(key) ==
  ProtocolCount(protocols, key)
    + (IF key \in Range(ProtocolPairs(protocol_batch)) THEN 1 ELSE 0)
ConnectionDue(key) ==
  ConnectionCount(connections, key) + (IF InSeq(connection_batch, key) THEN 1 ELSE 0)

\* the lines a pass of parse_conn_log reads in this step
ReadNow == IF NonEmpty("conn") /\ ParseConnLog THEN log["conn"].lines ELSE <<>>

\* C30: the persisted counter of each (ip, protocol) key and each connection
\* key is at least 1 and at most the number of update_protocol /
\* update_connection calls accepted for that key: in every step the counter
\* (plus one while the key is pending) grows by no more than the calls the
\* step accepts for the key, threshold-triggered flushes in the middle of a
\* source included.
C30_CounterBound ==
  [][/\ \A i \in DOMAIN protocols' : protocols'[i].packet_count >= 1
     /\ \A i \in DOMAIN connections' : connections'[i].packet_count >= 1
     /\ \A key \in ProtocolKeys(protocols') \cup Range(ProtocolPairs(protocol_batch')) :
          ProtocolDue(key)' <= ProtocolDue(key) + AcceptedProtocols(ReadNow, key)
     /\ \A key \in ConnectionKeys(connections') \cup Range(connection_batch') :
          ConnectionDue(key)' <= ConnectionDue(key) + AcceptedConnections(ReadNow, key)
    ]_vars

\* a connection key read twice in one pass, with a threshold-triggered flush
\* between the two lines, counts 2
C30_Witness ==
  /\ op.name = "parse_conn_log" /\ op.read = 2 /\ ~op.raised /\ op.err = {}
  /\ \E i \in DOMAIN connections : connections[i].packet_count = 2

\* ------------------------------------------------------ rejected calls
\* arguments of the direct calls, rejected ones included
AnyIps == CallIps \cup {JStr(BadIp), JNull}
AnyMacs == {JNull, JStr(Mac0a), JStr(BadMac)}
AnyProtocols == {JStr(TCP), JStr(<<>>), JNull}
AnyPorts == {JNum(502), JNum(70000), JNum(-1), JStr(<<"8", "0">>), JNull}

NextReject ==
  \/ Produce("conn", ConnRecord(ip1, ip2, 502, tcp))
  \/ ParseConnLog
  \/ ClearConnLog
  \/ GetAllAssets
  \/ \E ip \in AnyIps : \E mac \in AnyMacs : UpdateAssetMacCall(ip, mac, JNum(1))
  \/ \E ip \in AnyIps : \E protocol \in AnyProtocols : UpdateProtocolCall(ip, protocol)
  \/ \E src \in {JStr(ip1), JStr(BadIp)} : \E dst \in {JStr(ip2), JStr(BadIp)} :
       \E port \in AnyPorts : \E protocol \in AnyProtocols :
         UpdateConnectionCall(src, dst, port, protocol)

SpecReject == Init /\ [][NextReject]_vars

\* rejected arguments
AssetRejected(ip, mac) == ~is_valid_ip(ip) \/ (Truthy(mac) /\ ~is_valid_mac(mac))
ProtocolRejected(ip, protocol) == ~is_valid_ip(ip) \/ ~Truthy(protocol)
ConnectionRejected(src, dst, port, protocol) ==
  \/ ~is_valid_ip(src) \/ ~is_valid_ip(dst)
  \/ port.t # "num" \/ port.n < 0 \/ port.n > MaxPort
  \/ ~Truthy(protocol)

\* the three pending maps and the store are as they were, and no flush ran
NoEffect ==
  UNCHANGED <<asset_batch, protocol_batch, connection_batch,
              assets, protocols, connections, in_transaction>>

\* C31: rejected input has no effect: update_asset with an invalid IP or a
\* non-empty invalid MAC, update_protocol with an invalid IP or an empty
\* protocol, and update_connection with an invalid endpoint, a non-integer
\* or out-of-range port or an empty protocol leave the three pending maps
\* and the store unchanged and trigger no flush.
C31_RejectedNoEffect ==
  [][/\ \A ip \in AnyIps : \A mac \in AnyMacs :
          AssetRejected(ip, mac) /\ UpdateAssetMacCall(ip, mac, JNum(1)) => NoEffect
     /\ \A ip \in AnyIps : \A protocol \in AnyProtocols :
          ProtocolRejected(ip, protocol) /\ UpdateProtocolCall(ip, protocol) => NoEffect
     /\ \A src \in {JStr(ip1), JStr(BadIp)} : \A dst \in {JStr(ip2), JStr(BadIp)} :
          \A port \in AnyPorts : \A protocol \in AnyProtocols :
            ConnectionRejected(src, dst, port, protocol)
              /\ UpdateConnectionCall(src, dst, port, protocol) => NoEffect
    ]_vars

\* update_asset has rejected a MAC while the connection was open and the
\* pending items had reached the threshold: the items are still pending
C31_Witness ==
  /\ op.name = "update_asset" /\ "mac" \in DOMAIN op /\ op.mac = JStr(BadMac)
  /\ connection /\ ~in_transaction
  /\ Len(asset_batch) + Len(protocol_batch) + Len(connection_batch) >= batch_size

\* ------------------------------------------------------ upload hand-off
\* the state of the database and of the log parsers
db_vars == <<connection, in_transaction, asset_batch, protocol_batch,
             connection_batch, assets, protocols, connections, fault, faults,
             log, inputs, pc, submitted, op, result>>

\* how many upload events arrive
MaxUploads == 2
\* chunk_size of process_large_file (5 MB) and the size above which
\* handle_upload takes the chunked path (100 MB), scaled to bytes
chunk_size == 4
LargeLimit == 8

\* the magic numbers is_valid_pcap accepts, as bytes
MagicNumbers ==
  {<<161, 178, 195, 212>>, <<161, 178, 60, 77>>, <<212, 195, 178, 161>>,
   <<77, 60, 178, 161>>, <<10, 13, 13, 10>>}

is_valid_pcap(data) ==
  IF Len(data) < 4 THEN FALSE ELSE SubSeq(data, 1, 4) \in MagicNumbers

EndsWith(s, suffix) ==
  /\ Len(s) >= Len(suffix)
  /\ SubSeq(s, Len(s) - Len(suffix) + 1, Len(s)) = suffix

\* file_name.lower().endswith(('.pcap', '.pcapng', '.cap'))
ValidExtension(file_name) ==
  \E suffix \in {<<".", "p", "c", "a", "p">>, <<".", "p", "c", "a", "p", "n", "g">>,
                 <<".", "c", "a", "p">>} :
    EndsWith([i \in DOMAIN file_name |-> LowerChar(file_name[i])], suffix)

\* open(temp_path, 'wb'): an existing file is truncated in place, a missing
\* one is created; the descriptor is the inode temp_path names afterwards
OpenWb(F) ==
  IF F.temp # 0
  THEN [F EXCEPT !.inodes[F.temp] = <<>>]
  ELSE [F EXCEPT !.inodes = Append(@, <<>>), !.temp = Len(F.inodes) + 1]

\* f.write(chunk) at the descriptor's offset; a chunk is larger than the
\* writer's buffer and goes to the file at once; a gap reads as zeros
WriteAt(content, pos, chunk) ==
  LET head == IF pos <= Len(content) THEN SubSeq(content, 1, pos)
              ELSE content \o [k \in 1..(pos - Len(content)) |-> 0]
      tail == IF pos + Len(chunk) < Len(content)
              THEN SubSeq(content, pos + Len(chunk) + 1, Len(content))
              ELSE <<>>
  IN  head \o chunk \o tail

\* os.rename(temp_path, final_path), with process_large_file's handler and
\* handle_upload's: a missing temp_path raises FileNotFoundError, nothing is
\* left to remove, and the upload ends with "Upload error"
Rename(F, u) ==
  IF F.temp = 0
  THEN [files |-> F, u |-> [u EXCEPT !.pc = "done", !.outcome = "error"]]
  ELSE [files |-> [F EXCEPT !.final = F.temp, !.temp = 0],
        u |-> [u EXCEPT !.pc = "done", !.outcome = "uploaded"]]

\* the loop of process_large_file from offset u.i of the data up to its next
\* await, or to its end and the rename
RECURSIVE WriteChunks(_, _)
WriteChunks(F, u) ==
  IF u.i >= Len(u.data) THEN Rename(F, u)
  ELSE
    LET last == IF u.i + chunk_size < Len(u.data) THEN u.i + chunk_size ELSE Len(u.data)
        chunk == SubSeq(u.data, u.i + 1, last)
        G == [F EXCEPT !.inodes[u.fd] = WriteAt(@, u.pos, chunk)]
        progress == ((u.bytes_written + Len(chunk)) * 100) \div u.file_size
        v == [u EXCEPT !.i = u.i + chunk_size, !.pos = u.pos + Len(chunk),
                       !.bytes_written = u.bytes_written + Len(chunk)]
    IN  IF progress - u.last_progress >= 10
        THEN [files |-> G, u |-> [v EXCEPT !.last_progress = progress, !.pc = "chunks"]]
        ELSE WriteChunks(G, v)

\* upload events
PcapName == <<"a", ".", "P", "C", "A", "P">>
CapName == <<"b", ".", "c", "a", "p">>
TxtName == <<"c", ".", "t", "x", "t">>
LargePcap == <<161, 178, 195, 212, 1, 1, 1, 1, 1, 1, 1, 1>>
LargePcapng == <<10, 13, 13, 10, 2, 2, 2, 2, 2, 2, 2, 2>>
SmallPcap == <<212, 195, 178, 161, 3>>
NotPcap == <<7, 7, 7, 7, 7>>
ShortData == <<161, 178, 195>>
Content(data) == [present |-> TRUE, data |-> data]
NoContent == [present |-> FALSE, data |-> <<>>]
UploadEvents ==
  {[name |-> PcapName, content |-> Content(LargePcap)],
   [name |-> CapName, content |-> Content(LargePcapng)],
   [name |-> CapName, content |-> Content(SmallPcap)],
   [name |-> PcapName, content |-> Content(NotPcap)],
   [name |-> PcapName, content |-> Content(ShortData)],
   [name |-> TxtName, content |-> Content(LargePcap)],
   [name |-> PcapName, content |-> NoContent]}

Coroutine(e) ==
  [name |-> e.name, content |-> e.content, pc |-> "start", outcome |-> "none",
   data |-> <<>>, file_size |-> 0, fd |-> 0, pos |-> 0, i |-> 0,
   bytes_written |-> 0, last_progress |-> 0]

\* an upload event arrives: handle_upload runs up to content.read()
HandleUpload(e) ==
  /\ Len(uploads) < MaxUploads
  /\ uploads' = Append(uploads,
       IF ~ValidExtension(e.name)
       THEN [Coroutine(e) EXCEPT !.pc = "done", !.outcome = "invalid type"]
       ELSE IF ~e.content.present
       THEN [Coroutine(e) EXCEPT !.pc = "done", !.outcome = "no content"]
       ELSE [Coroutine(e) EXCEPT !.pc = "read"])
  /\ UNCHANGED <<files, monitor, db_vars>>

\* content.read() returns; handle_upload pauses for half a second
Received(k) ==
  /\ uploads[k].pc = "read"
  /\ uploads' = [uploads EXCEPT ![k].data = uploads[k].content.data,
                                ![k].file_size = Len(uploads[k].content.data),
                                ![k].pc = "pause"]
  /\ UNCHANGED <<files, monitor, db_vars>>

\* after the pause: the magic-byte check, then the direct path of a small
\* file (write and rename without an await) or the announcement of a large one
Validate(k) ==
  /\ uploads[k].pc = "pause"
  /\ LET u == uploads[k]
         F == OpenWb(files)
         R == Rename([F EXCEPT !.inodes[F.temp] = WriteAt(@, 0, u.data)], u)
     IN  IF ~is_valid_pcap(u.data)
         THEN /\ uploads' = [uploads EXCEPT ![k].pc = "done",
                                            ![k].outcome = "invalid format"]
              /\ UNCHANGED files
         ELSE IF u.file_size > LargeLimit
         THEN /\ uploads' = [uploads EXCEPT ![k].pc = "large"]
              /\ UNCHANGED files
         ELSE /\ uploads' = [uploads EXCEPT ![k] = R.u]
              /\ files' = R.files
  /\ UNCHANGED <<monitor, db_vars>>

\* process_large_file opens the temporary file and writes up to its first await
ProcessLargeFile(k) ==
  /\ uploads[k].pc = "large"
  /\ LET F == OpenWb(files)
         R == WriteChunks(F, [uploads[k] EXCEPT !.fd = F.temp])
     IN  /\ uploads' = [uploads EXCEPT ![k] = R.u]
         /\ files' = R.files
  /\ UNCHANGED <<monitor, db_vars>>

\* process_large_file resumes after asyncio.sleep(0.01)
ResumeLargeFile(k) ==
  /\ uploads[k].pc = "chunks"
  /\ LET R == WriteChunks(files, uploads[k])
     IN  /\ uploads' = [uploads EXCEPT ![k] = R.u]
         /\ files' = R.files
  /\ UNCHANGED <<monitor, db_vars>>

NextUpload ==
  \/ \E e \in UploadEvents : HandleUpload(e)
  \/ \E k \in DOMAIN uploads : Received(k)
  \/ \E k \in DOMAIN uploads : Validate(k)
  \/ \E k \in DOMAIN uploads : ProcessLargeFile(k)
  \/ \E k \in DOMAIN uploads : ResumeLargeFile(k)

SpecUpload == Init /\ [][NextUpload]_vars

\* the byte sequences of the uploads that passed the extension check and the
\* magic-byte check
Passed(U) ==
  {U[k].content.data : k \in {j \in DOMAIN U :
     ValidExtension(U[j].name) /\ U[j].content.present
       /\ is_valid_pcap(U[j].content.data)}}

\* this step ends upload k with a rejection
Rejects(k) ==
  /\ uploads'[k].outcome \in {"invalid type", "invalid format"}
  /\ k \in DOMAIN uploads => uploads[k].outcome = "none"

\* C32: atomic hand-off of uploads: whenever handle_upload replaces the final
\* capture file, its content is exactly the complete byte sequence of one
\* upload that passed the extension and magic-byte checks, also when two
\* handle_upload calls interleave at their await points; a rejected upload
\* leaves the final file unchanged.
C32_AtomicHandOff ==
  [][/\ files'.final # files.final
          => files'.inodes[files'.final] \in Passed(uploads')
     /\ \A k \in DOMAIN uploads' : Rejects(k) => files'.final = files.final
                                      /\ (files.final # 0 =>
                                            files'.inodes[files.final] = files.inodes[files.final])
    ]_vars

\* ------------------------------------------------------ progress monitor
\* the seconds watch_processing waits for conn.log (60 in the code), scaled
WaitSeconds == 4

\* inputs: the timeout of the call, the size of the capture, what the wait
\* loop finds of conn.log, the total log size a poll finds, and how long an
\* asyncio.sleep(2) takes on the clock time.time() reads
Timeouts == {2, 10}
PcapSizes == {0, 1000}
ConnLogs == {[exists |-> FALSE, size |-> 0], [exists |-> TRUE, size |-> 100],
             [exists |-> TRUE, size |-> 101]}
LogSizes == {0, 80, 120}
SleepTimes == {2, 3}

\* the percentage, rounded down: log_size / (pcap_size * 0.15) * 100, at most 95
calculate_progress(log_size, pcap_size) ==
  IF pcap_size = 0 THEN 0
  ELSE IF (log_size * 10000) \div (pcap_size * 15) < 95
       THEN (log_size * 10000) \div (pcap_size * 15)
       ELSE 95

report_progress(m, stage) == [m EXCEPT !.reports = Append(@, stage)]

\* the body of the monitoring loop for one poll of the total log size, up
\* to the break or to asyncio.sleep(2)
breaks_early(m, current_log_size) ==
  LET progress_pct == calculate_progress(current_log_size, m.pcap_size)
      staged == IF progress_pct >= 75 /\ m.current_stage < 3
                THEN [report_progress(m, 3) EXCEPT !.current_stage = 3]
                ELSE IF progress_pct >= 50 /\ m.current_stage < 3
                THEN report_progress(m, 2)
                ELSE m
      polled == [staged EXCEPT !.polls = Append(@, current_log_size)]
  IN  IF current_log_size = m.previous_log_size
      THEN [polled EXCEPT !.unchanged_count = @ + 1,
                          !.pc = IF m.unchanged_count + 1 >= 2 THEN "final" ELSE "sleep"]
      ELSE [polled EXCEPT !.unchanged_count = 0,
                          !.previous_log_size = current_log_size, !.pc = "sleep"]

poll(m, current_log_size) ==
  LET progress_pct == calculate_progress(current_log_size, m.pcap_size)
      staged == IF progress_pct >= 75 /\ m.current_stage < 3
                THEN [report_progress(m, 3) EXCEPT !.current_stage = 3]
                ELSE IF progress_pct >= 50 /\ m.current_stage < 3
                THEN report_progress(m, 2)
                ELSE m
      polled == [staged EXCEPT !.polls = Append(@, current_log_size)]
  IN  IF current_log_size = m.previous_log_size
      THEN [polled EXCEPT !.unchanged_count = @ + 1,
                          !.pc = IF m.unchanged_count + 1 >= 3 THEN "final" ELSE "sleep"]
      ELSE [polled EXCEPT !.unchanged_count = 0,
                          !.previous_log_size = current_log_size, !.pc = "sleep"]

\* watch_processing(timeout_seconds) up to its first loop test
WatchProcessing(timeout_seconds, pcap_size) ==
  /\ monitor.pc = "idle"
  /\ monitor' =
       IF pcap_size = 0
       THEN [report_progress(monitor, 0) EXCEPT !.pc = "done", !.returned = "False",
                                                !.timeout_seconds = timeout_seconds]
       ELSE [report_progress(monitor, 1) EXCEPT
               !.pc = "wait", !.timeout_seconds = timeout_seconds,
               !.pcap_size = pcap_size, !.start_time = monitor.now,
               !.wait_start = monitor.now]
  /\ UNCHANGED <<files, uploads, db_vars>>

\* one test of the loop that waits for conn.log
WaitForZeek(conn_log) ==
  /\ monitor.pc = "wait"
  /\ monitor' =
       IF monitor.now - monitor.wait_start < WaitSeconds
       THEN IF conn_log.exists /\ conn_log.size > 100
            THEN [report_progress(monitor, 2) EXCEPT
                    !.pc = "watch", !.previous_log_size = 0,
                    !.unchanged_count = 0, !.current_stage = 2]
            ELSE [monitor EXCEPT !.pc = "sleep"]
       ELSE [report_progress(monitor, 0) EXCEPT !.pc = "done", !.returned = "False"]
  /\ UNCHANGED <<files, uploads, db_vars>>

\* asyncio.sleep(2) returns to the loop it was called from
Sleep(seconds) ==
  /\ monitor.pc = "sleep"
  /\ monitor' = [monitor EXCEPT !.now = @ + seconds,
                                !.pc = IF monitor.current_stage = 0 THEN "wait" ELSE "watch"]
  /\ UNCHANGED <<files, uploads, db_vars>>

\* one test of the monitoring loop and, within the timeout, its body
WatchLogs(current_log_size) ==
  /\ monitor.pc = "watch"
  /\ monitor' =
       IF monitor.now - monitor.start_time < monitor.timeout_seconds
       THEN poll(monitor, current_log_size)
       ELSE [monitor EXCEPT !.pc = "final"]
  /\ UNCHANGED <<files, uploads, db_vars>>

\* the test after the loop, taken `seconds` after the loop's last test
Finish(seconds) ==
  /\ monitor.pc = "final"
  /\ LET m == [monitor EXCEPT !.now = @ + seconds]
     IN  monitor' =
           IF m.now - m.start_time >= m.timeout_seconds
           THEN [report_progress(m, 0) EXCEPT !.pc = "done", !.returned = "False"]
           ELSE [report_progress(m, 4) EXCEPT !.pc = "done", !.returned = "True"]
  /\ UNCHANGED <<files, uploads, db_vars>>

NextWatch ==
  \/ \E t \in Timeouts : \E size \in PcapSizes : WatchProcessing(t, size)
  \/ \E c \in ConnLogs : WaitForZeek(c)
  \/ \E d \in SleepTimes : Sleep(d)
  \/ \E size \in LogSizes : WatchLogs(size)
  \/ \E d \in {0, 1} : Finish(d)

SpecWatch == Init /\ [][NextWatch]_vars

\* the reports before the final one
Earlier(r) == IF monitor.pc = "done" THEN SubSeq(r, 1, Len(r) - 1) ELSE r

\* 1, then 2 one or more times, then optionally 3, or a beginning of that
Ordered(r) ==
  /\ \A i \in DOMAIN r : r[i] \in {1, 2, 3}
  /\ \A i \in DOMAIN r : i > 1 => r[i - 1] <= r[i]
  /\ \A i \in DOMAIN r : r[i] = 1 <=> i = 1
  /\ \A i \in DOMAIN r : r[i] = 3 => i = Len(r) /\ i > 2

\* the last three polls found the same total log size
StableThrice(p) ==
  /\ Len(p) >= 3
  /\ p[Len(p)] = p[Len(p) - 1]
  /\ p[Len(p) - 1] = p[Len(p) - 2]

\* C33: watch_processing reports a well-formed stage sequence: the stages
\* reported before the final report never decrease (1, then 2 one or more
\* times, then optionally 3), the final report is stage 4 or stage 0, the
\* call returns True exactly when the final report is stage 4, and stage 4
\* is reported only after the total log size was unchanged for 3 consecutive
\* polls before the timeout elapsed.
C33_StageSequence ==
  /\ Ordered(Earlier(monitor.reports))
  /\ monitor.pc = "done" =>
       LET final == monitor.reports[Len(monitor.reports)]
       IN  /\ final \in {0, 4}
           /\ monitor.returned = "True" <=> final = 4
           /\ monitor.returned \in {"True", "False"}
           /\ final = 4 =>
                /\ StableThrice(monitor.polls)
                /\ monitor.now - monitor.start_time < monitor.timeout_seconds
                /\ Len(monitor.reports) >= 3 /\ monitor.reports[2] = 2
  /\ monitor.pc # "done" => monitor.returned = "none"

\* the call has returned True after reporting 1, 2, 2, 3 and 4: the log
\* grew between the first polls and then stayed as it was for three polls
C33_Witness ==
  /\ monitor.pc = "done"
  /\ monitor.returned = "True"
  /\ monitor.reports = <<1, 2, 2, 3, 4>>
  /\ monitor.polls = <<80, 120, 120, 120, 120>>

====
